SPECIFICATION MCSpec
CONSTANTS
  SyncInterval = 4
  IdleInterval = 1
  NotifyDelay = 6
  AckDelay = 2
  ResponseDelay = 3
  MaxReplies = 3
  Intervals = {0, 2, 3, 5}
  MaxWall = 4
  MaxStamps = 4
  PathLens <- AllPaths
  TextLens <- AllTexts
  MemberCounts = {0, 12, 13, 20}
  Budget = 4
  MaxText = 9
  Marker = 3
  MaxFrame = 2
  Streams <- SmallStreams
  room1 = room1
  room2 = room2
  post = post
  ack = ack
  push = push
  advert = advert
  hash = hash
  NoPacket = NoPacket
  Packets = {post, ack, push, advert}
  Own = {push}
  KindOf <- Kind
  DestOf <- Dest
  Rooms <- TwoRooms
  HashOf <- OneHash
  Claimants <- Claimed
  Ttl = 3
  Capacity = 2
  SendTtl = 1
  EchoMax = 1
  MaxNow = 4
  MaxMarks = 4
INVARIANTS FitsNode TextKept FramesKept TypeOK TableIsWindow RightRoomClaims
PROPERTIES HandledOnce PushesSpaced ReplyUncrowded LocalsApart AdvertsRecur StampsFresh
CHECK_DEADLOCK FALSE
