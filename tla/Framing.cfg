SPECIFICATION FairSpec
CONSTANTS
  N = 4
  H = 2
  Start <- MCStart
  Empty = {3}
  ReplyAt <- MCReplyAt
  OutCap = 2
  Servers = {"asio", "epoll"}
  MaxGarbage = 3
INVARIANTS PacketsInOrder InStep RepliesInOrder
PROPERTIES PacketHandled
CHECK_DEADLOCK FALSE
