SPECIFICATION Spec
CONSTANTS
  Calls = {c1, c2}
  Async = {c2}
  Cancellable = {c1, c2}
  NoCall = NoCall
PROPERTIES QueuedCancelNotSent
