---------------------------- MODULE UdpLinkProofs ----------------------------
(***************************************************************************)
(* Proofs about UdpLink for every value of its constants: any queue size,   *)
(* any number of sockets and hosts, pipelined requests or not, any subset   *)
(* of the network events and of the failing calls.                         *)
(***************************************************************************)
EXTENDS UdpLink, TLAPS

IInv == TypeOK /\ RecordBeforeUse /\ CallAgrees /\ ConnMeansBound

\* Once allocated the record stays.
Kept == user_sock_u # NULL => user_sock_u' # NULL

\* Posting keeps the queue a bounded sequence of messages and adds at most the
\* message posted.
LEMMA PostType ==
  ASSUME NEW q \in Seq(Messages), Len(q) <= WIFI_QUEUE_SIZE,
         NEW m \in Messages
  PROVE  /\ Post(q, <<m>>) \in Seq(Messages)
         /\ Len(Post(q, <<m>>)) <= WIFI_QUEUE_SIZE
         /\ \A i \in DOMAIN Post(q, <<m>>) :
              Post(q, <<m>>)[i] = m \/ (i \in DOMAIN q /\ Post(q, <<m>>)[i] = q[i])
<1>1. CASE Len(q) < WIFI_QUEUE_SIZE
  <2>1. Post(q, <<m>>) = Append(q, m)
    BY <1>1 DEF Post
  <2>2. /\ Append(q, m) \in Seq(Messages)
        /\ Len(Append(q, m)) = Len(q) + 1
    OBVIOUS
  <2>3. Len(Append(q, m)) <= WIFI_QUEUE_SIZE
    BY <1>1, <2>2, UdpAssumption
  <2>4. \A i \in DOMAIN Append(q, m) :
          Append(q, m)[i] = m \/ (i \in DOMAIN q /\ Append(q, m)[i] = q[i])
    OBVIOUS
  <2> QED BY <2>1, <2>2, <2>3, <2>4
<1>2. CASE ~(Len(q) < WIFI_QUEUE_SIZE)
  BY <1>2 DEF Post
<1> QED BY <1>1, <1>2

\* Posting nothing changes nothing.
LEMMA PostNothing == ASSUME NEW q PROVE Post(q, <<>>) = q
BY DEF Post

\* Taking the first message leaves a shorter queue of the others.
LEMMA TailType ==
  ASSUME NEW q \in Seq(Messages), q # <<>>, Len(q) <= WIFI_QUEUE_SIZE
  PROVE  /\ Tail(q) \in Seq(Messages)
         /\ Len(Tail(q)) <= WIFI_QUEUE_SIZE
         /\ \A i \in DOMAIN Tail(q) : i + 1 \in DOMAIN q /\ Tail(q)[i] = q[i + 1]
BY UdpAssumption

\* The reset value of a pending call.
LEMMA NoCallType == NoCall \in CallType
BY UdpAssumption DEF NoCall, CallType

\* Nothing has happened when the tasks are created.
LEMMA InitIInv == Init => IInv
<1> SUFFICES ASSUME Init PROVE IInv
  OBVIOUS
<1>1. KS!KeyInv
  BY UdpAssumption DEF Init, KS!KeyInit, KS!KeyInv, KS!KeyTypeOK
<1>2. NoCall \in CallType
  BY NoCallType
<1>3. TypeOK
  BY <1>1, <1>2, UdpAssumption
  DEF Init, TypeOK, QueueTypeOK, WifiTypeOK, RcvTypeOK, TimerTypeOK, LcdTypeOK,
      LwipTypeOK, NetTypeOK, WifiStates, RcvStates
<1>4. RecordBeforeUse /\ CallAgrees /\ ConnMeansBound
  BY DEF Init, RecordBeforeUse, CallAgrees, ConnMeansBound
<1> QED BY <1>3, <1>4 DEF IInv

\* A step that leaves a group of variables alone keeps its type.
LEMMA Frame ==
  ASSUME TypeOK
  PROVE  /\ UNCHANGED queue => QueueTypeOK'
         /\ UNCHANGED wifiVars => WifiTypeOK'
         /\ UNCHANGED <<rpc, rcvVars>> => RcvTypeOK'
         /\ UNCHANGED timerVars => TimerTypeOK'
         /\ UNCHANGED lcdVars => LcdTypeOK'
         /\ UNCHANGED lwipVars => LwipTypeOK'
         /\ UNCHANGED <<netVars, fault>> => NetTypeOK'
<1>1. UNCHANGED timerVars => KS!KeyInv'
  BY DEF TypeOK, TimerTypeOK, timerVars, keyVars, KS!KeyInv, KS!KeyTypeOK
<1> QED
  BY <1>1 DEF TypeOK, QueueTypeOK, WifiTypeOK, RcvTypeOK, TimerTypeOK, LcdTypeOK,
      LwipTypeOK, NetTypeOK, wifiVars, rcvVars, histVars, timerVars, lcdVars, lwipVars,
      netVars

\* Receiving a message keeps the queue well formed and adds no reply to it.
LEMMA ReceiveQueue ==
  ASSUME TypeOK, NEW m, Receive(m)
  PROVE  /\ QueueTypeOK'
         /\ \A i \in DOMAIN queue' : i + 1 \in DOMAIN queue /\ queue'[i] = queue[i + 1]
         /\ fault = 0 /\ wpc = "idle"
BY TailType DEF TypeOK, QueueTypeOK, Receive

\* SocketUdp leaves an allocated record and the task in socket(), or gives up.
LEMMA SocketUdpType ==
  ASSUME TypeOK, SocketUdp
  PROVE  /\ user_sock_u' \in Sock_U \cup {NULL}
         /\ (wpc' = "socket" /\ user_sock_u' # NULL) \/ wpc' = "idle"
         /\ Kept
<1>1. FreshSock \in Sock_U
  BY UdpAssumption DEF FreshSock, Sock_U
<1> QED BY <1>1, NullAssumption DEF TypeOK, SocketUdp, Kept

\* Remainders are in range, whatever the modulus.
LEMMA ModType == ASSUME NEW x \in Int, NEW n \in Nat \ {0} PROVE x % n \in 0..(n - 1)
OBVIOUS

\* A reply or an error report is a message, so posting it keeps the queue well
\* formed; so does posting either it or nothing.
LEMMA PostQueue ==
  ASSUME QueueTypeOK, NEW m \in Messages,
         queue' = Post(queue, <<m>>) \/ queue' = queue
  PROVE  /\ QueueTypeOK'
         /\ \A i \in DOMAIN queue' :
              queue'[i] = m \/ (i \in DOMAIN queue /\ queue'[i] = queue[i])
BY PostType DEF QueueTypeOK

\* closesocket keeps lwIP's tables well formed.
LEMMA CloseType ==
  ASSUME LwipTypeOK, NEW s, CloseSocket(s) PROVE LwipTypeOK'
<1>1. CASE s \in OpenSockets
  <2>1. s \in Sockets
    BY <1>1 DEF OpenSockets
  <2>2. sockState' = [sockState EXCEPT ![s] = "closed"] /\ mbox' = [mbox EXCEPT ![s] = <<>>]
    BY <1>1 DEF CloseSocket
  <2> QED BY <2>1, <2>2 DEF LwipTypeOK
<1>2. CASE s \notin OpenSockets
  BY <1>2 DEF CloseSocket, LwipTypeOK, lwipVars
<1> QED BY <1>1, <1>2

\* The record is there whenever the WiFi task or the receive task uses it.
LEMMA RecordThere ==
  ASSUME TypeOK, RecordBeforeUse,
         \/ rpc # "poll"
         \/ wpc \notin {"idle", "delay"}
         \/ \E i \in DOMAIN queue : queue[i] = "MSG_SOCKET_SND"
  PROVE  user_sock_u # NULL /\ user_sock_u \in Sock_U
BY DEF TypeOK, RecordBeforeUse

\* The WiFi task keeps the types.
LEMMA WifiTypes ==
  ASSUME TypeOK, RecordBeforeUse, CallAgrees, WifiStep PROVE TypeOK' /\ Kept
<1> USE UdpAssumption, NullAssumption DEF WifiStates, Kept
<1>1. CASE WifiNetUp
  <2>1. UNCHANGED <<rpc, rcvVars>> /\ UNCHANGED timerVars /\ UNCHANGED lwipVars
        /\ UNCHANGED <<netVars, fault>>
    BY <1>1 DEF WifiNetUp
  <2>2. WifiTypeOK' /\ LcdTypeOK' /\ user_sock_u' \in Sock_U \cup {NULL} /\ Kept
    BY <1>1, SocketUdpType DEF WifiNetUp, TypeOK, WifiTypeOK, LcdTypeOK
  <2>3. QueueTypeOK'
    BY <1>1, ReceiveQueue DEF WifiNetUp
  <2> QED BY <2>1, <2>2, <2>3, Frame DEF TypeOK
<1>2. CASE WifiNetDown
  <2>1. UNCHANGED <<rpc, rcvVars>> /\ UNCHANGED timerVars /\ UNCHANGED lwipVars
    BY <1>2 DEF WifiNetDown
  <2>2. WifiTypeOK'
    <3>1. CASE user_sock_u = NULL
      BY <1>2, <3>1 DEF WifiNetDown, TypeOK, WifiTypeOK
    <3>2. CASE user_sock_u # NULL
      <4>1. user_sock_u \in Sock_U
        BY <3>2 DEF TypeOK
      <4>2. [NoCall EXCEPT !.sock = user_sock_u.socket_num] \in CallType
        BY <4>1, NoCallType DEF CallType, Sock_U
      <4> QED BY <1>2, <3>2, <4>2 DEF WifiNetDown, TypeOK, WifiTypeOK
    <3> QED BY <3>1, <3>2
  <2>3. QueueTypeOK'
    BY <1>2, ReceiveQueue DEF WifiNetDown
  <2>4. LcdTypeOK' /\ NetTypeOK' /\ user_sock_u' \in Sock_U \cup {NULL} /\ Kept
    BY <1>2 DEF WifiNetDown, TypeOK, LcdTypeOK, NetTypeOK, netVars
  <2> QED BY <2>1, <2>2, <2>3, <2>4, Frame DEF TypeOK
<1>3. CASE WifiOneshot
  <2>1. UNCHANGED <<rpc, rcvVars>> /\ UNCHANGED timerVars /\ UNCHANGED lwipVars
    BY <1>3 DEF WifiOneshot
  <2>2. QueueTypeOK'
    BY <1>3, ReceiveQueue DEF WifiOneshot
  <2>3. /\ WifiTypeOK' /\ LcdTypeOK' /\ NetTypeOK'
        /\ user_sock_u' \in Sock_U \cup {NULL} /\ Kept
    BY <1>3 DEF WifiOneshot, TypeOK, WifiTypeOK, LcdTypeOK, NetTypeOK
  <2> QED BY <2>1, <2>2, <2>3, Frame DEF TypeOK
<1>4. CASE WifiKey
  <2>1. QueueTypeOK'
    BY <1>4, ReceiveQueue DEF WifiKey
  <2> QED BY <1>4, <2>1, Frame DEF WifiKey, TypeOK
<1>5. CASE WifiSnd
  <2>1. QueueTypeOK'
    BY <1>5, ReceiveQueue DEF WifiSnd
  <2>2. user_sock_u \in Sock_U
    <3>1. \E i \in DOMAIN queue : queue[i] = "MSG_SOCKET_SND"
      BY <1>5 DEF WifiSnd, Receive, TypeOK, QueueTypeOK
    <3> QED BY <3>1, RecordThere
  <2>3. WifiTypeOK'
    BY <1>5, <2>2 DEF WifiSnd, TypeOK, WifiTypeOK, CallType, Sock_U
  <2> QED BY <1>5, <2>1, <2>3, Frame DEF WifiSnd, TypeOK
<1>6. CASE WifiSent
  <2>1. user_sock_u \in Sock_U
    BY <1>6, RecordThere DEF WifiSent
  <2> DEFINE left == (user_sock_u.tx_len - (call.len % U16)) % U32
  <2>2. left \in 0..(U32 - 1)
    <3>1. call.len % U16 \in Int
      BY ModType DEF TypeOK, WifiTypeOK, CallType
    <3>2. user_sock_u.tx_len - (call.len % U16) \in Int
      BY <2>1, <3>1 DEF Sock_U
    <3> QED BY <3>2, ModType
  <2>3. user_sock_u' \in Sock_U
    <3>1. [user_sock_u EXCEPT !.tx_len = left] \in Sock_U
      BY <2>1, <2>2 DEF Sock_U
    <3> QED BY <1>6, <2>1, <3>1 DEF WifiSent
  <2>4. QueueTypeOK'
    <3>1. queue' = Post(queue, <<"MSG_SOCKET_SND">>) \/ queue' = queue
      BY <1>6, PostNothing DEF WifiSent
    <3> QED BY <3>1, PostQueue DEF TypeOK, Messages
  <2>5. WifiTypeOK'
    BY <1>6, NoCallType DEF WifiSent, TypeOK, WifiTypeOK
  <2> QED BY <1>6, <2>3, <2>4, <2>5, Frame DEF WifiSent, TypeOK
<1>7. CASE WifiSocketErr
  <2>1. QueueTypeOK'
    BY <1>7, ReceiveQueue DEF WifiSocketErr
  <2>2. WifiTypeOK'
    BY <1>7 DEF WifiSocketErr, TypeOK, WifiTypeOK
  <2> QED BY <1>7, <2>1, <2>2, Frame DEF WifiSocketErr, TypeOK
<1>8. CASE WifiRetry
  <2>1. WifiTypeOK' /\ user_sock_u' \in Sock_U \cup {NULL} /\ Kept
    BY <1>8, SocketUdpType DEF WifiRetry, TypeOK, WifiTypeOK
  <2> QED BY <1>8, <2>1, Frame DEF WifiRetry, TypeOK
<1>9. CASE WifiSocketDone
  <2>1. user_sock_u \in Sock_U
    BY <1>9, RecordThere DEF WifiSocketDone
  <2>2. ASSUME NEW s \in Sockets
        PROVE  /\ [NoCall EXCEPT !.sock = s] \in CallType
               /\ [user_sock_u EXCEPT !.socket_num = s] \in Sock_U
               /\ [sockState EXCEPT ![s] = "open"] \in [Sockets -> {"closed", "open", "bound"}]
    BY <2>1, NoCallType DEF CallType, Sock_U, TypeOK, LwipTypeOK
  <2>3. [user_sock_u EXCEPT !.socket_num = NoSocket] \in Sock_U
    BY <2>1 DEF Sock_U
  <2>4. QueueTypeOK'
    BY <1>9, PostQueue DEF WifiSocketDone, TypeOK, Messages
  <2>5. WifiTypeOK' /\ LwipTypeOK' /\ user_sock_u' \in Sock_U
    <3>1. CASE wpc' = "bind"
      <4>1. PICK s \in Sockets :
              /\ sockState' = [sockState EXCEPT ![s] = "open"]
              /\ user_sock_u' = [user_sock_u EXCEPT !.socket_num = s]
              /\ call' = [NoCall EXCEPT !.sock = s]
        BY <1>9, <3>1 DEF WifiSocketDone
      <4> QED BY <1>9, <2>2, <3>1, <4>1
              DEF WifiSocketDone, TypeOK, WifiTypeOK, LwipTypeOK
    <3>2. CASE wpc' # "bind"
      BY <1>9, <2>3, <3>2 DEF WifiSocketDone, TypeOK, WifiTypeOK, LwipTypeOK
    <3> QED BY <3>1, <3>2
  <2> QED BY <1>9, <2>4, <2>5, Frame DEF WifiSocketDone, TypeOK
<1>10. CASE WifiBound
  <2>1. user_sock_u \in Sock_U /\ call.sock \in Sockets
    BY <1>10, RecordThere DEF WifiBound, CallAgrees
  <2>2. [user_sock_u EXCEPT !.conn_status = 1] \in Sock_U
    BY <2>1 DEF Sock_U
  <2>3. WifiTypeOK' /\ LwipTypeOK'
    BY <1>10, <2>1, NoCallType DEF WifiBound, TypeOK, WifiTypeOK, LwipTypeOK
  <2> QED BY <1>10, <2>2, <2>3, Frame DEF WifiBound, TypeOK
<1>11. CASE WifiBindFailed
  <2>1. user_sock_u \in Sock_U
    BY <1>11, RecordThere DEF WifiBindFailed
  <2>2. [NoCall EXCEPT !.sock = user_sock_u.socket_num] \in CallType
    BY <2>1, NoCallType DEF CallType, Sock_U
  <2>3. QueueTypeOK'
    BY <1>11, PostQueue DEF WifiBindFailed, TypeOK, Messages
  <2>4. WifiTypeOK'
    BY <1>11, <2>2, NoCallType DEF WifiBindFailed, TypeOK, WifiTypeOK
  <2> QED BY <1>11, <2>3, <2>4, Frame DEF WifiBindFailed, TypeOK
<1>12. CASE WifiClosed
  <2>1. user_sock_u \in Sock_U
    BY <1>12, RecordThere DEF WifiClosed
  <2>2. user_sock_u' \in Sock_U
    BY <1>12, <2>1 DEF WifiClosed, Sock_U
  <2>3. QueueTypeOK'
    <3>1. queue' = Post(queue, <<"MSG_SOCKET_ERR">>) \/ queue' = queue
      BY <1>12, PostNothing DEF WifiClosed
    <3> QED BY <3>1, PostQueue DEF TypeOK, Messages
  <2>4. WifiTypeOK' /\ RcvTypeOK' /\ LwipTypeOK'
    BY <1>12, NoCallType, CloseType
    DEF WifiClosed, AbandonWaiter, TypeOK, WifiTypeOK, RcvTypeOK, RcvStates, rcvVars, histVars
  <2> QED BY <1>12, <2>2, <2>3, <2>4, Frame DEF WifiClosed, TypeOK
<1> QED
  BY <1>1, <1>2, <1>3, <1>4, <1>5, <1>6, <1>7, <1>8, <1>9, <1>10, <1>11, <1>12
  DEF WifiStep

\* The receive task keeps the types.
LEMMA RcvTypes ==
  ASSUME TypeOK, RecordBeforeUse, CallAgrees, RcvStep PROVE TypeOK' /\ Kept
<1> USE UdpAssumption, NullAssumption DEF RcvStates, Kept
<1>1. CASE RcvPoll
  <2>1. RcvTypeOK'
    BY <1>1 DEF RcvPoll, TypeOK, RcvTypeOK, rcvVars, histVars
  <2> QED BY <1>1, <2>1, Frame DEF RcvPoll, RcvAt, TypeOK
<1>2. CASE RcvCall
  <2>1. user_sock_u \in Sock_U
    BY <1>2, RecordThere DEF RcvCall, RcvAt
  <2>2. RcvTypeOK'
    BY <1>2, <2>1 DEF RcvCall, histVars, TypeOK, RcvTypeOK, Sock_U
  <2> QED BY <1>2, <2>2, Frame DEF RcvCall, RcvAt, TypeOK
<1>3. CASE RcvDatagram
  <2>1. rsock \in Sockets
    BY <1>3 DEF RcvDatagram, RcvAt, CallAgrees
  <2>2. mbox[rsock] \in Seq(Datagrams) /\ mbox[rsock] # <<>>
    BY <1>3, <2>1 DEF RcvDatagram, TypeOK, LwipTypeOK
  <2>3. Head(mbox[rsock]) \in Datagrams /\ Tail(mbox[rsock]) \in Seq(Datagrams)
    BY <2>2
  <2>4. RcvTypeOK'
    BY <1>3, <2>3 DEF RcvDatagram, histVars, TypeOK, RcvTypeOK
  <2>5. LwipTypeOK'
    BY <1>3, <2>1, <2>3 DEF RcvDatagram, TypeOK, LwipTypeOK
  <2> QED BY <1>3, <2>4, <2>5, Frame DEF RcvDatagram, RcvAt, TypeOK
<1>4. CASE RcvHandle
  <2>1. ack' \in [data : Datagrams \cup {NoData}, len : 0..(U16 - 1)]
    BY <1>4 DEF RcvHandle, TypeOK, RcvTypeOK
  <2>2. RcvTypeOK'
    BY <1>4, <2>1 DEF RcvHandle, histVars, TypeOK, RcvTypeOK
  <2> QED BY <1>4, <2>2, Frame DEF RcvHandle, RcvAt, TypeOK
<1>5. CASE RcvCopy \/ RcvLen \/ RcvAddr \/ RcvErrNum \/ RcvErrConn
  <2>1. user_sock_u \in Sock_U
    BY <1>5, RecordThere
    DEF RcvCopy, RcvLen, RcvAddr, RcvErrNum, RcvErrConn, RcvAt
  <2>2. /\ [user_sock_u EXCEPT !.sock_tx = ack.data] \in Sock_U
        /\ [user_sock_u EXCEPT !.tx_len = ack.len] \in Sock_U
        /\ [user_sock_u EXCEPT !.remote = rx.from] \in Sock_U
        /\ [user_sock_u EXCEPT !.socket_num = NoSocket] \in Sock_U
        /\ [user_sock_u EXCEPT !.conn_status = 0] \in Sock_U
    BY <2>1 DEF TypeOK, RcvTypeOK, Sock_U, Datagrams
  <2>3. user_sock_u' \in Sock_U
    BY <1>5, <2>2 DEF RcvCopy, RcvLen, RcvAddr, RcvErrNum, RcvErrConn
  <2>4. RcvTypeOK'
    BY <1>5 DEF RcvCopy, RcvLen, RcvAddr, RcvErrNum, RcvErrConn, TypeOK,
                RcvTypeOK, rcvVars, histVars
  <2> QED
    BY <1>5, <2>3, <2>4, Frame
    DEF RcvCopy, RcvLen, RcvAddr, RcvErrNum, RcvErrConn, RcvAt, TypeOK
<1>6. CASE RcvPost \/ RcvErrPost
  <2>1. QueueTypeOK'
    BY <1>6, PostQueue DEF RcvPost, RcvErrPost, TypeOK, Messages
  <2>2. [ack EXCEPT !.data = NoData]
          \in [data : Datagrams \cup {NoData}, len : 0..(U16 - 1)]
    BY DEF TypeOK, RcvTypeOK
  <2>3. RcvTypeOK'
    BY <1>6, <2>2 DEF RcvPost, RcvErrPost, TypeOK, RcvTypeOK, rcvVars, histVars
  <2> QED BY <1>6, <2>1, <2>3, Frame DEF RcvPost, RcvErrPost, RcvAt, TypeOK
<1>7. CASE RcvErrClose
  <2>1. LwipTypeOK'
    BY <1>7, CloseType DEF RcvErrClose, TypeOK
  <2>2. RcvTypeOK'
    BY <1>7 DEF RcvErrClose, TypeOK, RcvTypeOK, rcvVars, histVars
  <2> QED BY <1>7, <2>1, <2>2, Frame DEF RcvErrClose, RcvAt, TypeOK
<1> QED BY <1>1, <1>2, <1>3, <1>4, <1>5, <1>6, <1>7 DEF RcvStep

\* A scan keeps the key counters consistent (the step of KeyScanProofs, for the
\* instance used here) and posts nothing but messages.
LEMMA ScanInv ==
  ASSUME KS!KeyInv, QueueTypeOK, NEW level \in {0, 1}, KS!Scan(level),
         queue' = Post(queue, KS!KeyMsgs(level))
  PROVE  /\ KS!KeyInv'
         /\ QueueTypeOK'
         /\ \A i \in DOMAIN queue' :
              queue'[i] # "MSG_SOCKET_SND" \/ (i \in DOMAIN queue /\ queue'[i] = queue[i])
<1> USE UdpAssumption DEF KS!KeyInv, KS!KeyTypeOK
<1>1. KS!KeyMsgs(level) \in {<<>>, <<"MSG_ONESHOT">>, <<"MSG_KEY">>}
  BY DEF KS!KeyMsgs
<1>2. QueueTypeOK'
      /\ \A i \in DOMAIN queue' :
              queue'[i] # "MSG_SOCKET_SND" \/ (i \in DOMAIN queue /\ queue'[i] = queue[i])
  BY <1>1, PostQueue, PostNothing DEF Messages
<1>3. KS!KeyInv'
  <2>1. CASE KS!KeyDown
    BY <2>1 DEF KS!KeyDown
  <2>2. CASE KS!KeyHeld
    <3>1. CASE gsKeyCount + 1 = KEY_LONG_COUNT
      <4>1. Len(KS!KeyMsgs(0)) = 1
        BY <2>2, <3>1 DEF KS!KeyHeld, KS!KeyMsgs
      <4>2. sent = 0
        BY <2>2, <3>1 DEF KS!KeyHeld
      <4>3. sent' = 1
        BY <2>2, <4>1, <4>2 DEF KS!KeyHeld
      <4>4. gsKeyCount' = KEY_LONG_COUNT /\ held' = held + 1 /\ gsKeyPreStatus' = 0
        BY <2>2, <3>1 DEF KS!KeyHeld
      <4> QED BY <2>2, <3>1, <4>3, <4>4 DEF KS!KeyHeld
    <3>2. CASE gsKeyCount + 1 # KEY_LONG_COUNT
      <4>1. Len(KS!KeyMsgs(0)) = 0
        BY <2>2, <3>2 DEF KS!KeyHeld, KS!KeyMsgs
      <4>2. sent' = sent
        BY <2>2, <4>1 DEF KS!KeyHeld
      <4>3. gsKeyCount' = gsKeyCount + 1 /\ held' = held + 1 /\ gsKeyPreStatus' = 0
            /\ gsKeyPreStatus = 0 /\ gsKeyCount < MaxHold
        BY <2>2 DEF KS!KeyHeld
      <4> QED BY <3>2, <4>2, <4>3
    <3> QED BY <3>1, <3>2
  <2>3. CASE KS!KeyUp
    <3>1. CASE gsKeyCount < KEY_LONG_COUNT
      <4>1. Len(KS!KeyMsgs(1)) = 1
        BY <2>3, <3>1 DEF KS!KeyUp, KS!KeyMsgs
      <4>2. sent = 0
        BY <2>3, <3>1 DEF KS!KeyUp
      <4>3. sent' = 1
        BY <2>3, <4>1, <4>2 DEF KS!KeyUp
      <4> QED BY <2>3, <4>3 DEF KS!KeyUp
    <3>2. CASE ~(gsKeyCount < KEY_LONG_COUNT)
      <4>1. Len(KS!KeyMsgs(1)) = 0
        BY <2>3, <3>2 DEF KS!KeyUp, KS!KeyMsgs
      <4> QED BY <2>3, <3>2, <4>1 DEF KS!KeyUp
    <3> QED BY <3>1, <3>2
  <2>4. CASE KS!KeyIdle
    BY <2>4 DEF KS!KeyIdle, KS!keyVars
  <2> QED BY <2>1, <2>2, <2>3, <2>4 DEF KS!Scan
<1> QED BY <1>2, <1>3

\* The timer keeps the types.
LEMMA TimerTypes == ASSUME TypeOK, TimerStep PROVE TypeOK'
<1>1. CASE TimerScan
  <2>1. PICK level \in KeyLevels :
          KS!Scan(level) /\ queue' = Post(queue, KS!KeyMsgs(level))
    BY <1>1 DEF TimerScan
  <2>2. KS!KeyInv' /\ QueueTypeOK'
    BY <2>1, ScanInv, UdpAssumption DEF TypeOK, TimerTypeOK
  <2>3. TimerTypeOK' /\ LcdTypeOK'
    BY <1>1, <2>2 DEF TimerScan, TimerAt, TypeOK, TimerTypeOK, LcdTypeOK
  <2> QED BY <1>1, <2>2, <2>3, Frame DEF TimerScan, TimerAt, TypeOK
<1>2. CASE TimerCheck \/ TimerBlink
  <2>1. KS!KeyInv'
    BY <1>2 DEF TimerCheck, TimerBlink, keyVars, TypeOK, TimerTypeOK, KS!KeyInv,
                KS!KeyTypeOK
  <2>2. TimerTypeOK' /\ LcdTypeOK' /\ QueueTypeOK'
    BY <1>2, <2>1, UdpAssumption
    DEF TimerCheck, TimerBlink, TimerAt, TypeOK, TimerTypeOK, LcdTypeOK, QueueTypeOK
  <2> QED BY <1>2, <2>2, Frame DEF TimerCheck, TimerBlink, TimerAt, TypeOK
<1> QED BY <1>1, <1>2 DEF TimerStep

\* The environment keeps the types.
LEMMA EnvTypes == ASSUME TypeOK, EnvStep PROVE TypeOK'
<1>1. EnvOnly
  BY DEF EnvStep, Join, GotAddr, AddrChange, Disconnect, IfDown, OneshotDone, Deliver
<1>2. WifiTypeOK' /\ RcvTypeOK' /\ TimerTypeOK' /\ LcdTypeOK'
      /\ user_sock_u' \in Sock_U \cup {NULL}
  BY <1>1, Frame DEF EnvOnly, TypeOK
<1>3. CASE Deliver
  <2>1. PICK s \in Sockets, d \in Datagrams : mbox' = [mbox EXCEPT ![s] = Append(@, d)]
    BY <1>3 DEF Deliver, BoundSockets
  <2>2. Append(mbox[s], d) \in Seq(Datagrams)
    BY <2>1 DEF TypeOK, LwipTypeOK
  <2>3. LwipTypeOK'
    BY <1>1, <2>1, <2>2 DEF EnvOnly, TypeOK, LwipTypeOK
  <2>4. QueueTypeOK' /\ NetTypeOK'
    BY <1>1, <1>3, Frame DEF Deliver, EnvOnly
  <2> QED BY <1>2, <2>3, <2>4 DEF TypeOK
<1>4. CASE ~Deliver
  <2>1. LwipTypeOK'
    BY <1>1, <1>4, Frame
    DEF EnvOnly, EnvStep, Join, GotAddr, AddrChange, Disconnect, IfDown,
        OneshotDone, lwipVars
  <2>2. NetTypeOK'
    BY <1>1, <1>4
    DEF EnvOnly, EnvStep, Join, GotAddr, AddrChange, Disconnect, IfDown,
        OneshotDone, TypeOK, NetTypeOK, netVars
  <2>3. QueueTypeOK'
    <3>1. \/ queue' = queue
          \/ queue' = Post(queue, <<"MSG_NET_UP">>)
          \/ queue' = Post(queue, <<"MSG_NET_DOWN">>)
      BY <1>4 DEF EnvStep, Join, GotAddr, AddrChange, Disconnect, IfDown,
                  OneshotDone, ReportNetUp
    <3> QED BY <3>1, PostQueue DEF TypeOK, Messages
  <2> QED BY <1>2, <2>1, <2>2, <2>3 DEF TypeOK
<1> QED BY <1>3, <1>4

\* Every step keeps the types and the record.
LEMMA StepTypes == ASSUME IInv, Next PROVE TypeOK' /\ Kept
<1>1. CASE WifiStep
  BY <1>1, WifiTypes DEF IInv
<1>2. CASE RcvStep
  BY <1>2, RcvTypes DEF IInv
<1>3. CASE TimerStep
  BY <1>3, TimerTypes
  DEF IInv, Kept, TimerStep, TimerScan, TimerCheck, TimerBlink, TimerAt
<1>4. CASE EnvStep
  BY <1>4, EnvTypes
  DEF IInv, Kept, EnvStep, EnvOnly, Join, GotAddr, AddrChange, Disconnect, IfDown,
      OneshotDone, Deliver
<1>5. CASE Halted
  BY <1>5, Frame DEF Halted, vars, IInv, TypeOK, Kept
<1> QED BY <1>1, <1>2, <1>3, <1>4, <1>5 DEF Next

\* While there is no record no step starts to use one.
LEMMA RecordStep == ASSUME IInv, Next PROVE RecordBeforeUse'
<1> SUFFICES ASSUME user_sock_u' = NULL PROVE RecordBeforeUse'
  BY DEF RecordBeforeUse
<1>1. /\ user_sock_u = NULL
      /\ rpc = "poll"
      /\ wpc \in {"idle", "delay"}
      /\ \A i \in DOMAIN queue : queue[i] # "MSG_SOCKET_SND"
      /\ TypeOK
  BY StepTypes DEF Kept, IInv, RecordBeforeUse
<1> DEFINE NoReply(q) == \A i \in DOMAIN q : q[i] # "MSG_SOCKET_SND"
<1> SUFFICES rpc' = "poll" /\ wpc' \in {"idle", "delay"} /\ NoReply(queue')
  BY DEF RecordBeforeUse
<1>2. CASE WifiStep
  <2>1. ~WifiSnd
    BY <1>1 DEF WifiSnd, Receive, TypeOK, QueueTypeOK
  <2>2. WifiNetUp \/ WifiNetDown \/ WifiOneshot \/ WifiKey \/ WifiSocketErr \/ WifiRetry
    BY <1>1, <1>2, <2>1
    DEF WifiStep, WifiSent, WifiSocketDone, WifiBound, WifiBindFailed, WifiClosed
  <2>3. rpc' = "poll" /\ wpc' \in {"idle", "delay"}
    BY <1>1, <2>2, SocketUdpType
    DEF WifiNetUp, WifiNetDown, WifiOneshot, WifiKey, WifiSocketErr, WifiRetry,
        wifiVars
  <2>4. CASE WifiRetry
    BY <1>1, <2>3, <2>4 DEF WifiRetry
  <2>5. CASE ~WifiRetry
    <3>1. \E m : Receive(m)
      BY <2>2, <2>5 DEF WifiNetUp, WifiNetDown, WifiOneshot, WifiKey, WifiSocketErr
    <3>2. NoReply(queue')
      BY <1>1, <3>1, ReceiveQueue
    <3> QED BY <2>3, <3>2
  <2> QED BY <2>4, <2>5
<1>3. CASE RcvStep
  BY <1>1, <1>3
  DEF RcvStep, RcvPoll, RcvCall, RcvDatagram, RcvHandle, RcvCopy, RcvLen, RcvAddr,
      RcvPost, RcvErrClose, RcvErrNum, RcvErrConn, RcvErrPost, RcvAt
<1>4. CASE TimerStep
  <2>1. rpc' = "poll" /\ wpc' \in {"idle", "delay"}
    BY <1>1, <1>4
    DEF TimerStep, TimerScan, TimerCheck, TimerBlink, TimerAt, wifiVars
  <2>2. CASE TimerScan
    <3>1. PICK level \in KeyLevels :
            KS!Scan(level) /\ queue' = Post(queue, KS!KeyMsgs(level))
      BY <2>2 DEF TimerScan
    <3>2. NoReply(queue')
      BY <1>1, <3>1, ScanInv, UdpAssumption DEF TypeOK, TimerTypeOK
    <3> QED BY <2>1, <3>2
  <2>3. CASE TimerCheck \/ TimerBlink
    BY <1>1, <2>1, <2>3 DEF TimerCheck, TimerBlink
  <2> QED BY <1>4, <2>2, <2>3 DEF TimerStep
<1>5. CASE EnvStep
  <2>1. EnvOnly
    BY <1>5
    DEF EnvStep, Join, GotAddr, AddrChange, Disconnect, IfDown, OneshotDone, Deliver
  <2>2. \/ queue' = queue
        \/ queue' = Post(queue, <<"MSG_NET_UP">>)
        \/ queue' = Post(queue, <<"MSG_NET_DOWN">>)
    BY <1>5 DEF EnvStep, Join, GotAddr, AddrChange, Disconnect, IfDown,
                OneshotDone, Deliver, ReportNetUp
  <2>3. NoReply(queue')
    BY <1>1, <2>2, PostQueue DEF TypeOK, Messages
  <2> QED BY <1>1, <2>1, <2>3 DEF EnvOnly, wifiVars
<1>6. CASE Halted
  BY <1>1, <1>6 DEF Halted, vars, wifiVars
<1> QED BY <1>2, <1>3, <1>4, <1>5, <1>6 DEF Next

\* The socket of the pending call stays the one the record names.
LEMMA CallStep == ASSUME IInv, Next PROVE CallAgrees'
<1>1. TypeOK /\ CallAgrees /\ Kept /\ RecordBeforeUse
  BY StepTypes DEF IInv
<1>2. CASE WifiStep
  <2>1. rpc' = "wait" => rsock' \in Sockets
    BY <1>1, <1>2
    DEF WifiStep, WifiNetUp, WifiNetDown, WifiOneshot, WifiKey, WifiSnd, WifiSent,
        WifiSocketErr, WifiRetry, WifiSocketDone, WifiBound, WifiBindFailed,
        WifiClosed, AbandonWaiter, CallAgrees, rcvVars, histVars
  <2>2. CASE WifiNetDown
    BY <1>1, <2>1, <2>2, ReceiveQueue
    DEF WifiNetDown, CallAgrees, NoCall
  <2>3. CASE WifiSocketDone
    <3>1. user_sock_u \in Sock_U /\ user_sock_u # NULL
      BY <1>1, <2>3, RecordThere DEF WifiSocketDone
    <3>2. CASE wpc' = "bind"
      <4>1. PICK s \in Sockets :
              /\ user_sock_u' = [user_sock_u EXCEPT !.socket_num = s]
              /\ call' = [NoCall EXCEPT !.sock = s]
        BY <2>3, <3>2 DEF WifiSocketDone
      <4>2. user_sock_u'.socket_num = s /\ call'.sock = s
        BY <3>1, <4>1 DEF Sock_U, NoCall
      <4> QED BY <1>1, <2>1, <3>1, <3>2, <4>2 DEF CallAgrees, Kept
    <3>3. CASE wpc' # "bind"
      BY <2>1, <2>3, <3>3 DEF WifiSocketDone, CallAgrees
    <3> QED BY <3>2, <3>3
  <2>4. CASE WifiBindFailed
    BY <1>1, <2>1, <2>4 DEF WifiBindFailed, CallAgrees, NoCall
  <2>5. CASE ~(WifiNetDown \/ WifiSocketDone \/ WifiBindFailed)
    <3>1. wpc' \notin {"bind", "errclose", "close"}
      BY <1>1, <1>2, <2>5, SocketUdpType, ReceiveQueue
      DEF WifiStep, WifiNetUp, WifiOneshot, WifiKey, WifiSnd, WifiSent,
          WifiSocketErr, WifiRetry, WifiBound, WifiClosed, wifiVars
    <3> QED BY <2>1, <3>1 DEF CallAgrees
  <2> QED BY <2>2, <2>3, <2>4, <2>5
<1>3. CASE RcvStep
  <2>1. UNCHANGED wifiVars
    BY <1>3
    DEF RcvStep, RcvPoll, RcvCall, RcvDatagram, RcvHandle, RcvCopy, RcvLen, RcvAddr,
        RcvPost, RcvErrClose, RcvErrNum, RcvErrConn, RcvErrPost, RcvAt
  <2>2. user_sock_u \in Sock_U =>
          user_sock_u'.socket_num \in {NoSocket, user_sock_u.socket_num}
    BY <1>3
    DEF RcvStep, RcvPoll, RcvCall, RcvDatagram, RcvHandle, RcvCopy, RcvLen, RcvAddr,
        RcvPost, RcvErrClose, RcvErrNum, RcvErrConn, RcvErrPost, Sock_U
  <2>3. rpc' = "wait" => rsock' \in Sockets
    BY <1>1, <1>3
    DEF RcvStep, RcvPoll, RcvCall, RcvDatagram, RcvHandle, RcvCopy, RcvLen, RcvAddr,
        RcvPost, RcvErrClose, RcvErrNum, RcvErrConn, RcvErrPost, OpenSockets
  <2> QED BY <1>1, <2>1, <2>2, <2>3 DEF CallAgrees, Kept, TypeOK, wifiVars
<1>4. CASE TimerStep \/ EnvStep \/ Halted
  <2>1. UNCHANGED <<wpc, call, user_sock_u, rpc, rsock>>
    BY <1>4
    DEF TimerStep, TimerScan, TimerCheck, TimerBlink, TimerAt, EnvStep, EnvOnly,
        Join, GotAddr, AddrChange, Disconnect, IfDown, OneshotDone, Deliver, Halted,
        vars, wifiVars, rcvVars, histVars
  <2> QED BY <1>1, <2>1 DEF CallAgrees
<1> QED BY <1>2, <1>3, <1>4 DEF Next

\* A step that leaves the record's connection, lwIP's sockets and the two
\* windows alone keeps conn_status truthful.
LEMMA ConnFrame ==
  ASSUME ConnMeansBound, user_sock_u # NULL, UNCHANGED sockState,
         user_sock_u'.conn_status = user_sock_u.conn_status,
         user_sock_u'.socket_num = user_sock_u.socket_num,
         wpc \in {"bind", "errclose"} => wpc' \in {"bind", "errclose"},
         rpc = "errnum" => rpc' = "errnum"
  PROVE  ConnMeansBound'
BY DEF ConnMeansBound, BoundSockets

\* No step leaves conn_status set over a socket that is not the bound one.
LEMMA ConnStep == ASSUME IInv, Next PROVE ConnMeansBound'
<1>1. TypeOK /\ CallAgrees /\ RecordBeforeUse /\ ConnMeansBound /\ TypeOK'
  BY StepTypes DEF IInv
<1>2. CASE user_sock_u = NULL
  <2>1. user_sock_u' = NULL \/ user_sock_u' = FreshSock
    BY <1>1, <1>2
    DEF RecordBeforeUse, Next, WifiStep, WifiNetUp, WifiNetDown, WifiOneshot, WifiKey, WifiSnd, WifiSent,
        WifiSocketErr, WifiRetry, WifiSocketDone, WifiBound, WifiBindFailed,
        WifiClosed, SocketUdp, RcvStep, RcvPoll, RcvCall, RcvDatagram, RcvHandle,
        RcvCopy, RcvLen, RcvAddr, RcvPost, RcvErrClose, RcvErrNum, RcvErrConn,
        RcvErrPost, RcvAt, TimerStep, TimerScan, TimerCheck, TimerBlink, TimerAt, EnvStep, EnvOnly,
        Join, GotAddr, AddrChange, Disconnect, IfDown, OneshotDone, Deliver, Halted, vars
  <2> QED BY <2>1 DEF ConnMeansBound, FreshSock
<1>3. CASE user_sock_u # NULL /\ WifiStep
  <2>1. user_sock_u \in Sock_U
    BY <1>1, <1>3 DEF TypeOK
  <2>2. CASE WifiNetUp \/ WifiNetDown \/ WifiOneshot \/ WifiKey \/ WifiSnd
             \/ WifiSocketErr \/ WifiRetry
    <3>1. wpc \in {"idle", "delay"} /\ UNCHANGED <<user_sock_u, sockState, rpc>>
      BY <1>3, <2>2
      DEF WifiNetUp, WifiNetDown, WifiOneshot, WifiKey, WifiSnd, WifiSocketErr,
          WifiRetry, Receive, SocketUdp, lwipVars
    <3> QED BY <1>1, <1>3, <3>1, ConnFrame
  <2>3. CASE WifiSent
    <3>1. /\ user_sock_u'.conn_status = user_sock_u.conn_status
          /\ user_sock_u'.socket_num = user_sock_u.socket_num
          /\ wpc = "send" /\ UNCHANGED <<sockState, rpc>>
      BY <2>1, <2>3 DEF WifiSent, Sock_U, lwipVars
    <3> QED BY <1>1, <1>3, <3>1, ConnFrame
  <2>4. CASE WifiSocketDone
    <3>1. wpc' = "bind" \/ user_sock_u'.socket_num = NoSocket
      BY <2>1, <2>4 DEF WifiSocketDone, Sock_U
    <3> QED BY <3>1 DEF ConnMeansBound
  <2>5. CASE WifiBound
    <3>1. user_sock_u'.socket_num \in {NoSocket, call.sock} /\ call.sock \in Sockets
      BY <1>1, <2>1, <2>5 DEF WifiBound, CallAgrees, Sock_U
    <3>2. sockState'[call.sock] = "bound"
      BY <1>1, <2>5, <3>1 DEF WifiBound, TypeOK, LwipTypeOK
    <3> QED BY <3>1, <3>2 DEF ConnMeansBound, BoundSockets
  <2>6. CASE WifiBindFailed
    <3>1. wpc' = "errclose" \/ user_sock_u'.socket_num = NoSocket
      BY <2>1, <2>6, UdpAssumption DEF WifiBindFailed, Sock_U, NoSocket
    <3> QED BY <3>1 DEF ConnMeansBound
  <2>7. CASE WifiClosed
    <3>1. user_sock_u'.socket_num = NoSocket
      BY <2>1, <2>7 DEF WifiClosed, Sock_U
    <3> QED BY <3>1 DEF ConnMeansBound
  <2> QED BY <1>3, <2>2, <2>3, <2>4, <2>5, <2>6, <2>7 DEF WifiStep
<1>4. CASE user_sock_u # NULL /\ RcvStep
  <2>1. user_sock_u \in Sock_U
    BY <1>1, <1>4 DEF TypeOK
  <2>2. UNCHANGED wpc
    BY <1>4
    DEF RcvStep, RcvPoll, RcvCall, RcvDatagram, RcvHandle, RcvCopy, RcvLen, RcvAddr,
        RcvPost, RcvErrClose, RcvErrNum, RcvErrConn, RcvErrPost, RcvAt, wifiVars
  <2>3. CASE RcvErrClose
    BY <2>3 DEF RcvErrClose, ConnMeansBound
  <2>4. CASE RcvErrNum
    <3>1. user_sock_u'.socket_num = NoSocket
      BY <2>1, <2>4 DEF RcvErrNum, Sock_U
    <3> QED BY <3>1 DEF ConnMeansBound
  <2>5. CASE RcvErrConn
    <3>1. user_sock_u'.conn_status = 0
      BY <2>1, <2>5 DEF RcvErrConn, Sock_U
    <3> QED BY <3>1 DEF ConnMeansBound
  <2>6. CASE RcvPoll \/ RcvCall \/ RcvDatagram \/ RcvHandle \/ RcvCopy \/ RcvLen
             \/ RcvAddr \/ RcvPost \/ RcvErrPost
    <3>1. /\ user_sock_u'.conn_status = user_sock_u.conn_status
          /\ user_sock_u'.socket_num = user_sock_u.socket_num
          /\ UNCHANGED sockState
      BY <2>1, <2>6
      DEF RcvPoll, RcvCall, RcvDatagram, RcvHandle, RcvCopy, RcvLen, RcvAddr,
          RcvPost, RcvErrPost, Sock_U, lwipVars
    <3>2. rpc # "errnum"
      BY <2>6
      DEF RcvPoll, RcvCall, RcvDatagram, RcvHandle, RcvCopy, RcvLen, RcvAddr,
          RcvPost, RcvErrPost, RcvAt
    <3> QED BY <1>1, <1>4, <2>2, <3>1, <3>2, ConnFrame
  <2> QED BY <1>4, <2>3, <2>4, <2>5, <2>6 DEF RcvStep
<1>5. CASE TimerStep \/ EnvStep \/ Halted
  <2>1. UNCHANGED <<wpc, user_sock_u, rpc, sockState>>
    BY <1>5
    DEF TimerStep, TimerScan, TimerCheck, TimerBlink, TimerAt, EnvStep, EnvOnly,
        Join, GotAddr, AddrChange, Disconnect, IfDown, OneshotDone, Deliver, Halted,
        vars, wifiVars, lwipVars
  <2> QED BY <1>1, <2>1 DEF ConnMeansBound, BoundSockets
<1> QED BY <1>2, <1>3, <1>4, <1>5 DEF Next

\* IInv is inductive.
LEMMA StepIInv == IInv /\ [Next]_vars => IInv'
<1> SUFFICES ASSUME IInv, [Next]_vars PROVE IInv'
  OBVIOUS
<1>1. CASE Next
  BY <1>1, StepTypes, RecordStep, CallStep, ConnStep DEF IInv
<1>2. CASE UNCHANGED vars
  <2>1. TypeOK'
    BY <1>2, Frame DEF IInv, TypeOK, vars
  <2>2. (RecordBeforeUse /\ CallAgrees /\ ConnMeansBound)'
    BY <1>2 DEF IInv, vars, wifiVars, rcvVars, histVars, lwipVars, RecordBeforeUse, CallAgrees,
                ConnMeansBound, BoundSockets
  <2> QED BY <2>1, <2>2 DEF IInv
<1> QED BY <1>1, <1>2

\* The inductive invariant holds in every reachable state.
THEOREM UdpInvariant == Spec => []IInv
BY InitIInv, StepIInv, PTL DEF Spec

\* Every variable of the network side keeps its type; in particular tx_len, the
\* u32 that WifiSent may wrap, and the queue, which four parties post to.
THEOREM UdpTypes == Spec => []TypeOK
<1>1. IInv => TypeOK
  BY DEF IInv
<1> QED BY <1>1, UdpInvariant, PTL

\* Outside CloseUdpSock nothing goes through user_sock_u before it is allocated.
THEOREM UdpRecordBeforeUse == Spec => []RecordBeforeUse
<1>1. IInv => RecordBeforeUse
  BY DEF IInv
<1> QED BY <1>1, UdpInvariant, PTL

\* conn_status tells the truth about the socket that owns UDP_LOCAL_PORT.
THEOREM UdpConnMeansBound == Spec => []ConnMeansBound
<1>1. IInv => ConnMeansBound
  BY DEF IInv
<1> QED BY <1>1, UdpInvariant, PTL
=============================================================================
