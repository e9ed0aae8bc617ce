SPECIFICATION FairSpec
CONSTANTS
  completed = completed
  bare = bare
  notice = notice
  onCompleted = onCompleted
  onNotice = onNotice
  Events = {completed, bare, notice}
  Handlers = {onCompleted, onNotice}
  Topics = {"orders.order.completed", "notification.sent"}
  Critical = {"orders.order.completed"}
  TopicOf <- MCTopicOf
  Bare = {bare}
  MaxCrashes = 1
  MaxNacks = 1
  Orders = {o1}
  ItemCount = 2
  Callers = {c1, c2}
  Attempts = 3
  MaxCount = 6
  MaxOutages = 1
  MaxMsgs = 2
  MaxFaults = 2
  Durable = {"credited"}
CHECK_DEADLOCK FALSE
INVARIANTS
  NoneLostWhileRunning
  ReplyIsComplete
  OneFailureTolerated
  CompletedIsAnnounced
PROPERTIES
  PendingIsSettled
  CallReturns
  ReadyEventually
