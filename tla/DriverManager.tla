----------------------------- MODULE DriverManager -----------------------------
(***************************************************************************)
(* The two driver managers, pkg/driver (v1) and pkg/driver/v2: goroutines  *)
(* run drivers, one goroutine closes them all.  Both call Init outside     *)
(* their mutex; v2 appends only after a successful Init and holds the      *)
(* mutex while it closes, v1 appends in a deferred function whatever Init  *)
(* returned and closes without the mutex.                                  *)
(*                                                                         *)
(* A manager's list is a set here: names are distinct, and no property is  *)
(* about the order in which drivers are closed.                            *)
(***************************************************************************)
EXTENDS Naturals

CONSTANTS
  Drivers,
  MaxCloseAll    \* bound on the calls of CloseAllDriver

ASSUME MaxCloseAllAssumption == MaxCloseAll \in Nat

VARIABLES
  version,   \* which manager this is
  stage,     \* stage[d]: where RunDriver(d) is
  inited,    \* drivers whose Init has succeeded
  drivers,   \* the manager's list
  closes,    \* closes[d]: how often Close was called on d
  closer,    \* CloseAllDriver is running
  closing,   \* drivers its loop has not reached yet
  closeAlls  \* calls of CloseAllDriver so far

managerVars == <<version, stage, inited, drivers, closes, closer, closing, closeAlls>>

Versions == {"v1", "v2"}

ManagerTypeOK ==
  /\ version \in Versions
  /\ stage \in [Drivers -> {"new", "append", "returned"}]
  /\ inited \subseteq Drivers /\ drivers \subseteq Drivers /\ closing \subseteq Drivers
  /\ closes \in [Drivers -> Nat]
  /\ closer \in BOOLEAN
  /\ closeAlls \in Nat

\* NewDriver and NewManagerV2.
NewManager ==
  /\ stage = [d \in Drivers |-> "new"]
  /\ inited = {} /\ drivers = {}
  /\ closes = [d \in Drivers |-> 0]
  /\ closer = FALSE /\ closing = {} /\ closeAlls = 0

\* Only v2 holds its mutex throughout CloseAllDriver.
Locked == version = "v2" /\ closer

\* RunDriver calls Init, which succeeds.
RunInit(d) ==
  /\ stage[d] = "new"
  /\ inited' = inited \cup {d}
  /\ stage' = [stage EXCEPT ![d] = "append"]
  /\ UNCHANGED <<version, drivers, closes, closer, closing, closeAlls>>

\* Mutant: v2 appends in a deferred function, as v1 does.
RunInitFails_Deferred(d) ==
  /\ stage[d] = "new"
  /\ stage' = [stage EXCEPT ![d] = "append"]
  /\ UNCHANGED <<version, inited, drivers, closes, closer, closing, closeAlls>>

\* Init fails: v2 returns the error, v1 still has its deferred append to run.
RunInitFails(d) ==
  /\ stage[d] = "new"
  /\ stage' = [stage EXCEPT ![d] = IF version = "v1" THEN "append" ELSE "returned"]
  /\ UNCHANGED <<version, inited, drivers, closes, closer, closing, closeAlls>>

\* The driver is appended under the mutex and RunDriver returns.
RunAppend(d) ==
  /\ stage[d] = "append"
  /\ ~Locked
  /\ drivers' = drivers \cup {d}
  /\ stage' = [stage EXCEPT ![d] = "returned"]
  /\ UNCHANGED <<version, inited, closes, closer, closing, closeAlls>>

\* CloseAllDriver starts to range over the list as it is now.
CloseBegin ==
  /\ ~closer /\ closeAlls < MaxCloseAll
  /\ closer' = TRUE /\ closing' = drivers
  /\ closeAlls' = closeAlls + 1
  /\ UNCHANGED <<version, stage, inited, drivers, closes>>

\* One driver is closed; an error is reported and the loop goes on.
CloseOne(d) ==
  /\ closer /\ d \in closing
  /\ closes' = [closes EXCEPT ![d] = @ + 1]
  /\ closing' = closing \ {d}
  /\ UNCHANGED <<version, stage, inited, drivers, closer, closeAlls>>

\* The list is emptied.
CloseEnd ==
  /\ closer /\ closing = {}
  /\ drivers' = {} /\ closer' = FALSE
  /\ UNCHANGED <<version, stage, inited, closes, closing, closeAlls>>

\* Instance and Has look a driver up under the read lock.
Found(d) == ~Locked /\ d \in drivers

ManagerInit == version \in Versions /\ NewManager

ManagerNext ==
  \/ \E d \in Drivers : RunInit(d) \/ RunInitFails(d) \/ RunAppend(d) \/ CloseOne(d)
  \/ CloseBegin
  \/ CloseEnd

ManagerSpec == ManagerInit /\ [][ManagerNext]_managerVars

-------------------------------------------------------------------------------
\* v2: a driver that started and was handed over is still in the list or has been
\* closed, whatever CloseAllDriver does at the same time.
NoDriverForgotten ==
  version = "v2" =>
    \A d \in inited : stage[d] = "returned" => d \in drivers \/ closes[d] > 0

\* v2: Close is called only on a driver whose Init succeeded, and once however
\* often CloseAllDriver runs.
ClosedOnceIfStarted ==
  version = "v2" =>
    \A d \in Drivers : closes[d] <= 1 /\ (closes[d] = 1 => d \in inited)

\* v2: a lookup never finds a driver that is closed.
LookupFindsOpen ==
  version = "v2" => \A d \in Drivers : Found(d) => closes[d] = 0
===============================================================================
