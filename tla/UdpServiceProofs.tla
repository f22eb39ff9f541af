--------------------------- MODULE UdpServiceProofs ---------------------------
(***************************************************************************)
(* UdpLink implements UdpService, proved for every value of the constants:   *)
(* any queue size, any number of sockets and hosts, requests that wait for   *)
(* the answer before them or not, any subset of the network events and of    *)
(* the failing calls.                                                      *)
(***************************************************************************)
EXTENDS UdpLinkProofs

\* A step that neither adds a message m to the queue nor takes one out.
Same(m) == (InQueue(m)' <=> InQueue(m)) /\ (Once(m) => Once(m)')

\* What posting m does to the messages n in the queue.
LEMMA PostCount ==
  ASSUME QueueTypeOK, NEW m \in Messages, NEW n \in Messages,
         queue' = Post(queue, <<m>>)
  PROVE  /\ InQueue(n)' => InQueue(n) \/ n = m
         /\ InQueue(n) => InQueue(n)'
         /\ Once(n) /\ (n # m \/ ~InQueue(n)) => Once(n)'
<1>1. CASE Len(queue) < WIFI_QUEUE_SIZE
  <2>1. queue' = Append(queue, m)
    BY <1>1 DEF Post
  <2>2. /\ DOMAIN queue' = 1..(Len(queue) + 1)
        /\ DOMAIN queue = 1..Len(queue)
        /\ Len(queue) \in Nat
        /\ queue'[Len(queue) + 1] = m
        /\ \A i \in DOMAIN queue : queue'[i] = queue[i]
    BY <2>1 DEF QueueTypeOK
  <2> QED BY <2>2 DEF InQueue, Once
<1>2. CASE ~(Len(queue) < WIFI_QUEUE_SIZE)
  BY <1>2 DEF Post, InQueue, Once
<1> QED BY <1>1, <1>2

\* Posting another message, or nothing, does not touch the messages n.
LEMMA PostOther ==
  ASSUME QueueTypeOK, NEW n \in Messages,
         queue' = queue \/ \E m \in Messages \ {n} : queue' = Post(queue, <<m>>)
  PROVE  Same(n)
BY PostCount DEF Same, InQueue, Once

\* What receiving m does to the messages n in the queue.
LEMMA TakeCount ==
  ASSUME QueueTypeOK, NEW m, Receive(m), NEW n \in Messages
  PROVE  /\ InQueue(m)
         /\ InQueue(n)' => InQueue(n)
         /\ n # m => Same(n)
         /\ Once(n) => Once(n)'
         /\ Once(m) => ~InQueue(m)'
<1>1. /\ DOMAIN queue' = 1..(Len(queue) - 1)
      /\ DOMAIN queue = 1..Len(queue)
      /\ Len(queue) \in Nat \ {0}
      /\ queue[1] = m
      /\ \A i \in DOMAIN queue' : queue'[i] = queue[i + 1]
  BY DEF QueueTypeOK, Receive
<1>2. \A i \in DOMAIN queue : i = 1 \/ (i - 1 \in DOMAIN queue' /\ queue'[i - 1] = queue[i])
  BY <1>1
<1>3. InQueue(m)
  BY <1>1 DEF InQueue
<1>4. InQueue(n)' => InQueue(n)
  BY <1>1 DEF InQueue
<1>5. n # m /\ InQueue(n) => InQueue(n)'
  BY <1>1, <1>2 DEF InQueue
<1>6. Once(n) => Once(n)'
  BY <1>1 DEF Once
<1>7. Once(m) => ~InQueue(m)'
  BY <1>1 DEF Once, InQueue
<1> QED BY <1>3, <1>4, <1>5, <1>6, <1>7 DEF Same

\* Only the receive task, when it hands over an answer, and the WiFi task, when
\* it takes one or has sent it in part, touch the answers in the queue.
LEMMA RepliesUntouched ==
  ASSUME TypeOK, Next, ~WifiSnd, ~WifiSent, ~RcvPost
  PROVE  Same("MSG_SOCKET_SND")
<1>1. QueueTypeOK /\ "MSG_SOCKET_SND" \in Messages
  BY DEF TypeOK, Messages
<1>2. CASE WifiNetUp \/ WifiNetDown \/ WifiOneshot \/ WifiKey \/ WifiSocketErr
  BY <1>1, <1>2, TakeCount
  DEF WifiNetUp, WifiNetDown, WifiOneshot, WifiKey, WifiSocketErr
<1>3. CASE WifiRetry \/ WifiSocketDone \/ WifiBound \/ WifiBindFailed \/ WifiClosed
  <2>1. queue' = queue \/ queue' = Post(queue, <<"MSG_SOCKET_ERR">>)
    BY <1>3, PostNothing
    DEF WifiRetry, WifiSocketDone, WifiBound, WifiBindFailed, WifiClosed
  <2> QED BY <1>1, <2>1, PostOther DEF Messages
<1>4. CASE RcvStep
  <2>1. queue' = queue \/ queue' = Post(queue, <<"MSG_SOCKET_ERR">>)
    BY <1>4
    DEF RcvStep, RcvPoll, RcvCall, RcvDatagram, RcvHandle, RcvCopy, RcvLen, RcvAddr,
        RcvErrClose, RcvErrNum, RcvErrConn, RcvErrPost
  <2> QED BY <1>1, <2>1, PostOther DEF Messages
<1>5. CASE TimerStep
  <2>1. \/ queue' = queue
        \/ queue' = Post(queue, <<"MSG_KEY">>)
        \/ queue' = Post(queue, <<"MSG_ONESHOT">>)
    BY <1>5, PostNothing DEF TimerStep, TimerScan, TimerCheck, TimerBlink, KS!KeyMsgs
  <2> QED BY <1>1, <2>1, PostOther DEF Messages
<1>6. CASE EnvStep
  <2>1. \/ queue' = queue
        \/ queue' = Post(queue, <<"MSG_NET_UP">>)
        \/ queue' = Post(queue, <<"MSG_NET_DOWN">>)
    BY <1>6 DEF EnvStep, Join, GotAddr, AddrChange, Disconnect, IfDown,
                OneshotDone, Deliver, ReportNetUp
  <2> QED BY <1>1, <2>1, PostOther DEF Messages
<1>7. CASE Halted
  BY <1>1, <1>7, PostOther DEF Halted, vars
<1> QED BY <1>2, <1>3, <1>4, <1>5, <1>6, <1>7 DEF Next, WifiStep

\* The fields of the record an answer is made of.
SameAnswer ==
  user_sock_u # NULL =>
    /\ user_sock_u'.sock_tx = user_sock_u.sock_tx
    /\ user_sock_u'.tx_len = user_sock_u.tx_len
    /\ user_sock_u'.remote = user_sock_u.remote

\* A step that has nothing to do with an answer.
Aside ==
  /\ Same("MSG_SOCKET_SND")
  /\ SameAnswer
  /\ UNCHANGED <<rx, ack, histVars>>
  /\ rpc' = rpc \/ ~(Serving \/ Serving')
  /\ wpc' = "send" <=> wpc = "send"
  /\ wpc = "send" => UNCHANGED call

\* Such a step keeps the answer in its place and its buffers as they are.
LEMMA AsideKeeps ==
  ASSUME TypeOK, RecordBeforeUse, OneAnswer, AnswerAgrees, Aside
  PROVE  OneAnswer' /\ AnswerAgrees'
<1>1. user_sock_u = NULL => ~AnswerPending /\ rpc = "poll"
  BY DEF RecordBeforeUse, InQueue, AnswerPending
<1>2. AnswerPending' <=> AnswerPending
  BY DEF Aside, Same, AnswerPending
<1>3. OneAnswer'
  BY <1>2 DEF Aside, Same, OneAnswer, histVars, Filling, Serving
<1>4. AnswerAgrees'
  <2>1. /\ rpc' = rpc \/ {rpc, rpc'} \cap {"copy", "len", "addr", "post"} = {}
        /\ UNCHANGED <<rx, ack, ans, overlap>>
    BY DEF Aside, Serving, histVars
  <2>2. AnswerPending \/ rpc \in {"copy", "len", "addr", "post"} =>
          /\ user_sock_u'.sock_tx = user_sock_u.sock_tx
          /\ user_sock_u'.tx_len = user_sock_u.tx_len
          /\ user_sock_u'.remote = user_sock_u.remote
    BY <1>1 DEF Aside, SameAnswer
  <2>3. wpc' = "send" => wpc = "send" /\ UNCHANGED call /\ AnswerPending
    BY DEF Aside, AnswerPending
  <2> QED BY <1>2, <2>1, <2>2, <2>3 DEF AnswerAgrees, Filling, AnswerTo, AnswerLens
<1> QED BY <1>3, <1>4

\* All but the eight steps that a request is made of are such steps.
LEMMA OtherSteps ==
  ASSUME IInv, Next, ~WifiSnd, ~WifiSent, ~RcvDatagram, ~RcvHandle, ~RcvCopy, ~RcvLen,
         ~RcvAddr, ~RcvPost
  PROVE  Aside
<1>1. TypeOK /\ RecordBeforeUse /\ Same("MSG_SOCKET_SND")
  BY RepliesUntouched DEF IInv
<1>2. user_sock_u # NULL => user_sock_u \in Sock_U
  BY <1>1 DEF TypeOK
<1>3. CASE WifiStep
  <2>1. SameAnswer
    BY <1>2, <1>3
    DEF SameAnswer, Sock_U, WifiStep, WifiNetUp, WifiNetDown, WifiOneshot, WifiKey,
        WifiSocketErr, WifiRetry, WifiSocketDone, WifiBound, WifiBindFailed, WifiClosed,
        SocketUdp
  <2>2. UNCHANGED <<rx, ack, histVars>> /\ wpc # "send" /\ wpc' # "send"
    BY <1>3
    DEF WifiStep, WifiNetUp, WifiNetDown, WifiOneshot, WifiKey, WifiSocketErr, WifiRetry,
        WifiSocketDone, WifiBound, WifiBindFailed, WifiClosed, SocketUdp, Receive, rcvVars,
        wifiVars
  <2>3. rpc' = rpc \/ ~(Serving \/ Serving')
    BY <1>3
    DEF WifiStep, WifiNetUp, WifiNetDown, WifiOneshot, WifiKey, WifiSocketErr, WifiRetry,
        WifiSocketDone, WifiBound, WifiBindFailed, WifiClosed, AbandonWaiter, Serving
  <2> QED BY <1>1, <2>1, <2>2, <2>3 DEF Aside
<1>4. CASE RcvStep
  <2>1. SameAnswer
    BY <1>2, <1>4
    DEF SameAnswer, Sock_U, RcvStep, RcvPoll, RcvCall, RcvErrClose, RcvErrNum, RcvErrConn,
        RcvErrPost
  <2>2. UNCHANGED <<rx, ack, histVars, wpc, call>> /\ ~(Serving \/ Serving')
    BY <1>4
    DEF RcvStep, RcvPoll, RcvCall, RcvErrClose, RcvErrNum, RcvErrConn, RcvErrPost, RcvAt,
        rcvVars, wifiVars, Serving
  <2> QED BY <1>1, <2>1, <2>2 DEF Aside
<1>5. CASE TimerStep \/ EnvStep \/ Halted
  <2>1. UNCHANGED <<rx, ack, histVars, wpc, call, rpc, user_sock_u>>
    BY <1>5
    DEF TimerStep, TimerScan, TimerCheck, TimerBlink, TimerAt, EnvStep, EnvOnly,
        Join, GotAddr, AddrChange, Disconnect, IfDown, OneshotDone, Deliver, Halted,
        vars, wifiVars, rcvVars
  <2> QED BY <1>1, <2>1 DEF Aside, SameAnswer
<1> QED BY <1>3, <1>4, <1>5 DEF Next

\* The WiFi task takes an answer out of the queue.
LEMMA SndKeeps ==
  ASSUME IInv, OneAnswer, AnswerAgrees, WifiSnd
  PROVE  OneAnswer' /\ AnswerAgrees'
<1>1. /\ InQueue("MSG_SOCKET_SND")
      /\ Once("MSG_SOCKET_SND") => ~InQueue("MSG_SOCKET_SND")'
      /\ Once("MSG_SOCKET_SND") => Once("MSG_SOCKET_SND")'
      /\ AnswerPending
  BY TakeCount DEF IInv, TypeOK, WifiSnd, Messages, AnswerPending
<1>2. UNCHANGED <<rpc, rx, ack, ans, overlap, user_sock_u>>
  BY DEF WifiSnd, rcvVars, histVars
<1>3. overlap = 0 => ~Filling' /\ ~InQueue("MSG_SOCKET_SND")' /\ Once("MSG_SOCKET_SND")'
  BY <1>1, <1>2 DEF OneAnswer, Filling
<1>4. OneAnswer'
  BY <1>2, <1>3 DEF OneAnswer
<1>5. wpc' = "send" =>
        /\ call' = [sock |-> user_sock_u.socket_num, to |-> user_sock_u.remote,
                    len |-> user_sock_u.tx_len]
        /\ user_sock_u.tx_len > 0
  BY DEF WifiSnd, Receive
<1>6. AnswerAgrees'
  BY <1>1, <1>2, <1>5 DEF AnswerAgrees, Filling
<1> QED BY <1>4, <1>6

\* The length of an answer passes through u16_t unchanged.
LEMMA LensShort ==
  ASSUME NEW d \in Datagrams, NEW n \in AnswerLens(d)
  PROVE  n \in 0..(U16 - 1) /\ n % U16 = n
<1>1. n \in 0..(U16 - 1)
  BY UdpAssumption DEF AnswerLens
<1> QED BY <1>1, UdpAssumption

\* sendto sends all of an answer that was not overtaken or nothing, so it never
\* asks to be called again.
LEMMA SentOnce ==
  ASSUME IInv, AnswerAgrees, WifiSent, overlap = 0
  PROVE  queue' = queue
<1>1. user_sock_u \in Sock_U /\ ans \in Datagrams
  BY RecordThere DEF IInv, TypeOK, RcvTypeOK, WifiSent
<1>2. user_sock_u.tx_len \in AnswerLens(ans) /\ call.len = user_sock_u.tx_len
  BY DEF AnswerAgrees, WifiSent, AnswerPending
<1>3. user_sock_u.tx_len - (call.len % U16) = 0
  BY <1>1, <1>2, LensShort
<1>4. 0 % U32 = 0
  BY UdpAssumption
<1> QED BY <1>3, <1>4, PostNothing DEF WifiSent

\* sendto returns.
LEMMA SentKeeps ==
  ASSUME IInv, OneAnswer, AnswerAgrees, WifiSent
  PROVE  OneAnswer' /\ AnswerAgrees'
<1>1. UNCHANGED <<rpc, rx, ack, ans, overlap>> /\ wpc = "send" /\ wpc' = "idle"
  BY DEF WifiSent, rcvVars, histVars
<1>2. user_sock_u \in Sock_U
  BY <1>1, RecordThere DEF IInv
<1>3. /\ user_sock_u'.sock_tx = user_sock_u.sock_tx
      /\ user_sock_u'.remote = user_sock_u.remote
  BY <1>2 DEF WifiSent, Sock_U
<1>4. CASE overlap = 0
  <2>1. ~Filling /\ ~InQueue("MSG_SOCKET_SND") /\ Once("MSG_SOCKET_SND")
    BY <1>1, <1>4 DEF OneAnswer, AnswerPending
  <2>2. queue' = queue
    BY <1>4, SentOnce
  <2>3. ~Filling' /\ ~AnswerPending' /\ Once("MSG_SOCKET_SND")'
    BY <1>1, <2>1, <2>2 DEF Filling, AnswerPending, InQueue, Once
  <2>4. OneAnswer'
    BY <2>3 DEF OneAnswer, AnswerPending
  <2>5. AnswerAgrees'
    BY <1>1, <2>3 DEF AnswerAgrees, Filling
  <2> QED BY <2>4, <2>5
<1>5. CASE overlap # 0
  BY <1>1, <1>3, <1>5 DEF OneAnswer, AnswerAgrees, Filling
<1> QED BY <1>4, <1>5

\* recvfrom returns and Data_Handle makes the answer: neither touches the record.
LEMMA HandleKeeps ==
  ASSUME IInv, OneAnswer, AnswerAgrees, RcvDatagram \/ RcvHandle
  PROVE  /\ OneAnswer' /\ AnswerAgrees'
         /\ ~Filling /\ ~Filling'
         /\ UNCHANGED <<queue, wpc, call, user_sock_u, ans, overlap>>
<1>1. UNCHANGED <<queue, wpc, call, user_sock_u, ans, overlap>> /\ ~Filling /\ ~Filling'
  BY DEF RcvDatagram, RcvHandle, RcvAt, wifiVars, histVars, Filling
<1>2. AnswerPending' = AnswerPending /\ Once("MSG_SOCKET_SND")' = Once("MSG_SOCKET_SND")
      /\ InQueue("MSG_SOCKET_SND")' = InQueue("MSG_SOCKET_SND")
  BY <1>1 DEF AnswerPending, InQueue, Once
<1>3. OneAnswer'
  BY <1>1, <1>2 DEF OneAnswer
<1>4. rpc' \notin {"len", "addr", "post"} /\ rx \in Datagrams
      /\ ack \in [data : Datagrams \cup {NoData}, len : 0..(U16 - 1)]
  BY <1>1 DEF Filling, IInv, TypeOK, RcvTypeOK
<1>5. CASE RcvDatagram
  <2>1. rpc' # "copy" /\ UNCHANGED ack /\ rpc = "wait"
    BY <1>5 DEF RcvDatagram, RcvAt
  <2> QED BY <1>1, <1>2, <1>3, <1>4, <2>1 DEF AnswerAgrees
<1>6. CASE RcvHandle
  <2>1. ack'.data = AnswerTo(rx) /\ ack'.len \in AnswerLens(rx) /\ UNCHANGED rx
    BY <1>4, <1>6 DEF RcvHandle, RcvAt, AnswerAgrees, AnswerTo, AnswerLens
  <2>2. AnswerTo(rx') = AnswerTo(rx) /\ AnswerLens(rx') = AnswerLens(rx) /\ rpc' = "copy"
    BY <1>6, <2>1 DEF RcvHandle
  <2>3. AnswerAgrees'
    BY <1>1, <1>2, <1>4, <2>1, <2>2 DEF AnswerAgrees
  <2> QED BY <1>1, <1>3, <2>3
<1> QED BY <1>5, <1>6

\* The receive task overwrites the record, over a pending answer or not.
LEMMA CopyKeeps ==
  ASSUME IInv, OneAnswer, AnswerAgrees, RcvCopy
  PROVE  OneAnswer' /\ AnswerAgrees'
<1>1. /\ UNCHANGED <<queue, wpc, call, rx, ack>> /\ rpc = "copy" /\ rpc' = "len"
      /\ ans' = rx /\ overlap' = IF AnswerPending THEN 1 ELSE 0
  BY DEF RcvCopy, RcvAt, wifiVars
<1>2. user_sock_u \in Sock_U
  BY <1>1, RecordThere DEF IInv
<1>3. user_sock_u'.sock_tx = ack.data
  BY <1>2 DEF RcvCopy, Sock_U
<1>4. AnswerPending' = AnswerPending /\ InQueue("MSG_SOCKET_SND")' = InQueue("MSG_SOCKET_SND")
  BY <1>1 DEF AnswerPending, InQueue
<1>5. overlap' = 0 => ~AnswerPending /\ ~InQueue("MSG_SOCKET_SND") /\ wpc' # "send"
  BY <1>1 DEF AnswerPending
<1>6. OneAnswer'
  BY <1>4, <1>5 DEF OneAnswer, Once, InQueue
<1>7. AnswerAgrees'
  BY <1>1, <1>3, <1>4, <1>5 DEF AnswerAgrees, AnswerTo, AnswerLens
<1> QED BY <1>6, <1>7

\* The length and the address follow.
LEMMA FillKeeps ==
  ASSUME IInv, OneAnswer, AnswerAgrees, RcvLen \/ RcvAddr
  PROVE  /\ OneAnswer' /\ AnswerAgrees'
         /\ Filling /\ Filling' /\ UNCHANGED <<queue, wpc, call, ans, overlap>>
         /\ user_sock_u'.sock_tx = user_sock_u.sock_tx
<1>1. /\ UNCHANGED <<queue, wpc, call, rx, ack, ans, overlap>>
      /\ Filling /\ Filling'
  BY DEF RcvLen, RcvAddr, RcvAt, wifiVars, rcvVars, histVars, Filling
<1>2. AnswerPending' = AnswerPending /\ Once("MSG_SOCKET_SND")' = Once("MSG_SOCKET_SND")
      /\ InQueue("MSG_SOCKET_SND")' = InQueue("MSG_SOCKET_SND")
  BY <1>1 DEF AnswerPending, InQueue, Once
<1>3. OneAnswer' /\ (overlap = 0 => ~AnswerPending' /\ wpc' # "send")
  BY <1>1, <1>2 DEF OneAnswer, AnswerPending
<1>4. user_sock_u \in Sock_U
  BY <1>1, RecordThere DEF IInv, Filling
<1>5. CASE RcvLen
  <2>1. /\ user_sock_u'.sock_tx = user_sock_u.sock_tx
        /\ user_sock_u'.tx_len = ack.len /\ rpc = "len" /\ rpc' = "addr"
    BY <1>4, <1>5 DEF RcvLen, RcvAt, Sock_U
  <2>2. AnswerAgrees'
    BY <1>1, <1>3, <2>1 DEF AnswerAgrees, AnswerTo, AnswerLens, Filling
  <2> QED BY <1>1, <1>3, <2>1, <2>2
<1>6. CASE RcvAddr
  <2>1. /\ user_sock_u'.sock_tx = user_sock_u.sock_tx
        /\ user_sock_u'.tx_len = user_sock_u.tx_len
        /\ user_sock_u'.remote = rx.from /\ rpc = "addr" /\ rpc' = "post"
    BY <1>4, <1>6 DEF RcvAddr, RcvAt, Sock_U
  <2>2. AnswerAgrees'
    BY <1>1, <1>3, <2>1 DEF AnswerAgrees, AnswerTo, AnswerLens, Filling
  <2> QED BY <1>1, <1>3, <2>1, <2>2
<1> QED BY <1>5, <1>6

\* The receive task hands the answer over and clears UDPAck.
LEMMA PostKeeps ==
  ASSUME IInv, OneAnswer, AnswerAgrees, RcvPost
  PROVE  /\ OneAnswer' /\ AnswerAgrees'
         /\ rpc = "post" /\ Filling /\ ~Filling'
         /\ UNCHANGED <<wpc, call, user_sock_u, ans, overlap>>
<1>1. /\ UNCHANGED <<wpc, call, rx, user_sock_u, ans, overlap>> /\ Filling /\ ~Filling'
      /\ rpc = "post" /\ rpc' = "poll"
      /\ queue' = Post(queue, <<"MSG_SOCKET_SND">>)
  BY DEF RcvPost, RcvAt, wifiVars, histVars, Filling
<1>2. ack'.data = NoData
  BY DEF RcvPost, IInv, TypeOK, RcvTypeOK
<1>3. CASE overlap = 0
  <2>1. ~InQueue("MSG_SOCKET_SND") /\ wpc # "send" /\ wpc' # "send"
    BY <1>1, <1>3 DEF OneAnswer, AnswerPending
  <2>2. Once("MSG_SOCKET_SND")'
    BY <1>1, <1>3, <2>1, PostCount DEF IInv, TypeOK, OneAnswer, Messages
  <2>3. OneAnswer'
    BY <1>1, <2>1, <2>2 DEF OneAnswer
  <2>4. ans = rx /\ ack.data = AnswerTo(rx) /\ ack.len \in AnswerLens(rx)
        /\ user_sock_u.sock_tx = ack.data /\ user_sock_u.tx_len = ack.len
        /\ user_sock_u.remote = rx.from
    BY <1>1, <1>3 DEF AnswerAgrees
  <2>5. /\ user_sock_u'.sock_tx = AnswerTo(ans')
        /\ user_sock_u'.tx_len \in AnswerLens(ans')
        /\ user_sock_u'.remote = ans'.from
    BY <1>1, <2>4 DEF AnswerTo, AnswerLens
  <2>6. AnswerAgrees'
    BY <1>1, <1>2, <2>1, <2>5 DEF AnswerAgrees
  <2> QED BY <1>1, <2>3, <2>6
<1>4. CASE overlap # 0
  <2>1. OneAnswer' /\ AnswerAgrees'
    BY <1>1, <1>2, <1>4 DEF OneAnswer, AnswerAgrees
  <2> QED BY <1>1, <2>1
<1> QED BY <1>3, <1>4

\* A step that posts or takes no message about the network or the socket, and
\* starts nothing, keeps SetupOnce.
LEMMA SetupQuiet ==
  ASSUME SetupOnce, Stable, UNCHANGED netif,
         Same("MSG_NET_UP"), Same("MSG_NET_DOWN"), Same("MSG_SOCKET_ERR"),
         SettingUp' => SettingUp, Connected' => Connected, wpc' # "close",
         rpc' = "errpost" => user_sock_u'.conn_status = 0
  PROVE  SetupOnce'
BY DEF SetupOnce, Same

\* The messages of SetupOnce after one of the others was received or posted.
LEMMA SetupQueue ==
  ASSUME QueueTypeOK,
         \/ queue' = queue
         \/ \E m \in {"MSG_ONESHOT", "MSG_KEY", "MSG_SOCKET_SND"} :
              Receive(m) \/ queue' = Post(queue, <<m>>)
  PROVE  Same("MSG_NET_UP") /\ Same("MSG_NET_DOWN") /\ Same("MSG_SOCKET_ERR")
<1>1. CASE \E m \in {"MSG_ONESHOT", "MSG_KEY", "MSG_SOCKET_SND"} : Receive(m)
  BY <1>1, TakeCount DEF Messages
<1>2. CASE ~(\E m \in {"MSG_ONESHOT", "MSG_KEY", "MSG_SOCKET_SND"} : Receive(m))
  BY <1>2, PostOther DEF Messages
<1> QED BY <1>1, <1>2

\* The WiFi task sets the socket up for one message at a time.
LEMMA SetupWifi ==
  ASSUME IInv, SetupOnce, Stable, WifiStep PROVE SetupOnce'
<1> DEFINE Up  == InQueue("MSG_NET_UP")
           Err == InQueue("MSG_SOCKET_ERR")
<1>1. /\ TypeOK /\ QueueTypeOK /\ RecordBeforeUse /\ CallAgrees
      /\ MayFail = {} /\ NetEvents = {}
      /\ "MSG_NET_UP" \in Messages /\ "MSG_NET_DOWN" \in Messages
      /\ "MSG_SOCKET_ERR" \in Messages
  BY DEF IInv, TypeOK, Stable, Messages
<1>2. /\ wpc # "close" /\ ~InQueue("MSG_NET_DOWN") /\ netif # "lost"
      /\ Once("MSG_NET_UP") /\ Once("MSG_SOCKET_ERR")
      /\ rpc = "errpost" => user_sock_u.conn_status = 0
      /\ netif # "ip" => ~Up
      /\ netif # "ip" \/ Up => ~Err
      /\ netif # "ip" \/ Up \/ Err => ~SettingUp
      /\ netif # "ip" \/ Up \/ Err \/ SettingUp => ~Connected
  BY DEF SetupOnce
<1>3. user_sock_u # NULL => user_sock_u \in Sock_U
  BY <1>1 DEF TypeOK
<1>4. ~WifiNetDown
  BY <1>1, <1>2, TakeCount DEF WifiNetDown
<1>5. CASE WifiOneshot \/ WifiKey \/ WifiSnd \/ WifiSent
  <2>1. Same("MSG_NET_UP") /\ Same("MSG_NET_DOWN") /\ Same("MSG_SOCKET_ERR")
    <3>1. \/ queue' = queue
          \/ \E m \in {"MSG_ONESHOT", "MSG_KEY", "MSG_SOCKET_SND"} :
               Receive(m) \/ queue' = Post(queue, <<m>>)
      BY <1>5, PostNothing DEF WifiOneshot, WifiKey, WifiSnd, WifiSent
    <3> QED BY <1>1, <3>1, SetupQueue
  <2>2. UNCHANGED <<netif, rpc>> /\ wpc' \in {"idle", "send"}
    BY <1>5 DEF WifiOneshot, WifiKey, WifiSnd, WifiSent, Receive, netVars, wifiVars
  <2>3. /\ user_sock_u' # NULL => user_sock_u # NULL
        /\ user_sock_u # NULL => user_sock_u'.conn_status = user_sock_u.conn_status
    <3>1. CASE WifiSent
      <4>1. user_sock_u # NULL
        BY <1>1, <3>1, RecordThere DEF WifiSent
      <4> QED BY <1>3, <3>1, <4>1 DEF WifiSent, Sock_U
    <3>2. CASE ~WifiSent
      BY <1>5, <3>2 DEF WifiOneshot, WifiKey, WifiSnd
    <3> QED BY <3>1, <3>2
  <2>4. ~SettingUp' /\ (Connected' => Connected)
    BY <2>2, <2>3 DEF SettingUp, Connected
  <2>5. rpc' = "errpost" => user_sock_u'.conn_status = 0
    <3>1. rpc = "errpost" => user_sock_u # NULL
      BY <1>1 DEF RecordBeforeUse
    <3> QED BY <1>2, <2>2, <2>3, <3>1
  <2> QED BY <2>1, <2>2, <2>4, <2>5, SetupQuiet
<1>6. CASE WifiNetUp \/ WifiRetry
  <2>1. SocketUdp /\ UNCHANGED <<netif, rpc>>
    BY <1>6 DEF WifiNetUp, WifiRetry, netVars
  <2>2. wpc' = "socket" /\ (Connected' => Connected)
    BY <1>1, <2>1 DEF SocketUdp, Connected, FreshSock, RecordBeforeUse
  <2>3. rpc' = "errpost" => user_sock_u'.conn_status = 0
    BY <1>1, <1>2, <2>1 DEF SocketUdp, RecordBeforeUse
  <2>4. netif' = "ip" /\ ~Up' /\ ~Err' /\ ~Connected /\ ~InQueue("MSG_NET_DOWN")'
    <3>1. CASE WifiNetUp
      BY <1>1, <1>2, <2>1, <3>1, TakeCount DEF WifiNetUp
    <3>2. CASE WifiRetry
      <4>1. SettingUp /\ UNCHANGED queue
        BY <3>2 DEF WifiRetry, SettingUp
      <4> QED BY <1>2, <2>1, <4>1 DEF InQueue
    <3> QED BY <1>6, <3>1, <3>2
  <2>5. Once("MSG_NET_UP")' /\ Once("MSG_SOCKET_ERR")'
    BY <2>4 DEF InQueue, Once
  <2> QED BY <2>2, <2>3, <2>4, <2>5 DEF SetupOnce
<1>7. CASE WifiSocketErr
  <2>1. Err /\ ~Err' /\ Same("MSG_NET_UP") /\ Same("MSG_NET_DOWN")
    BY <1>1, <1>2, <1>7, TakeCount DEF WifiSocketErr
  <2>2. /\ UNCHANGED <<netif, rpc, user_sock_u>> /\ wpc' \in {"idle", "delay"}
        /\ Connected' = Connected
    BY <1>7 DEF WifiSocketErr, netVars, Connected
  <2>3. netif = "ip" /\ ~Up /\ ~Connected
    BY <1>2, <2>1
  <2>4. ~Up' /\ ~Connected' /\ ~InQueue("MSG_NET_DOWN")'
    BY <1>2, <2>1, <2>2, <2>3 DEF Same
  <2>5. Once("MSG_NET_UP")' /\ Once("MSG_SOCKET_ERR")'
    BY <2>1, <2>4 DEF InQueue, Once
  <2> QED BY <1>2, <2>1, <2>2, <2>3, <2>4, <2>5 DEF SetupOnce
<1>8. CASE WifiSocketDone \/ WifiBound \/ WifiBindFailed \/ WifiClosed
  <2>1. wpc \in {"socket", "bind", "errclose"}
    BY <1>2, <1>8 DEF WifiSocketDone, WifiBound, WifiBindFailed, WifiClosed
  <2>2. user_sock_u \in Sock_U /\ user_sock_u # NULL
    BY <1>1, <2>1, RecordThere
  <2>3. netif = "ip" /\ ~Up /\ ~Err /\ ~Connected /\ rpc = "poll"
    BY <1>2, <2>1, <2>2 DEF SettingUp, Connected
  <2>4. UNCHANGED <<netif, rpc>>
    BY <1>8, <2>3
    DEF WifiSocketDone, WifiBound, WifiBindFailed, WifiClosed, AbandonWaiter, netVars
  <2>5. \/ queue' = queue
        \/ queue' = Post(queue, <<"MSG_SOCKET_ERR">>) /\ wpc' = "idle" /\ ~WifiBound
    BY <1>8, <2>1, PostNothing
    DEF WifiSocketDone, WifiBound, WifiBindFailed, WifiClosed
  <2>6. ~Up' /\ ~InQueue("MSG_NET_DOWN")' /\ Once("MSG_NET_UP")'
    <3>1. Same("MSG_NET_UP") /\ Same("MSG_NET_DOWN")
      BY <1>1, <2>5, PostOther
    <3> QED BY <1>2, <2>3, <3>1 DEF Same
  <2>7. Once("MSG_SOCKET_ERR")' /\ (Err' => wpc' = "idle" /\ ~WifiBound)
    <3>1. CASE queue' = queue
      BY <1>2, <2>3, <3>1 DEF InQueue, Once
    <3>2. CASE queue' # queue
      BY <1>1, <1>2, <2>3, <2>5, <3>2, PostCount
    <3> QED BY <3>1, <3>2
  <2>8. wpc' # "close"
    BY <1>8 DEF WifiSocketDone, WifiBound, WifiBindFailed, WifiClosed
  <2>9. CASE WifiBound
    <3>1. wpc' = "idle" /\ ~Err'
      BY <2>7, <2>9 DEF WifiBound
    <3> QED BY <1>2, <2>3, <2>4, <2>6, <2>7, <2>8, <3>1 DEF SetupOnce, SettingUp
  <2>10. CASE ~WifiBound
    <3>1. user_sock_u'.conn_status = 0
      BY <1>8, <2>2, <2>3, <2>10
      DEF WifiSocketDone, WifiBindFailed, WifiClosed, Sock_U, Connected
    <3>2. ~Connected' /\ (wpc' = "idle" => ~SettingUp')
      BY <2>3, <2>4, <3>1 DEF Connected, SettingUp
    <3> QED BY <1>2, <2>3, <2>4, <2>6, <2>7, <2>8, <3>2 DEF SetupOnce
  <2> QED BY <2>9, <2>10
<1> QED BY <1>4, <1>5, <1>6, <1>7, <1>8 DEF WifiStep

\* The receive task asks for a new socket once it has given up the old one.
LEMMA SetupRcv ==
  ASSUME IInv, SetupOnce, Stable, RcvStep PROVE SetupOnce'
<1>1. /\ TypeOK /\ QueueTypeOK /\ RecordBeforeUse
      /\ "MSG_NET_UP" \in Messages /\ "MSG_NET_DOWN" \in Messages
      /\ "MSG_SOCKET_ERR" \in Messages
  BY DEF IInv, TypeOK, Messages
<1>2. UNCHANGED <<wpc, netif>> /\ wpc # "close"
  BY DEF SetupOnce, RcvStep, RcvPoll, RcvCall, RcvDatagram, RcvHandle, RcvCopy, RcvLen,
         RcvAddr, RcvPost, RcvErrClose, RcvErrNum, RcvErrConn, RcvErrPost, RcvAt,
         wifiVars, netVars
<1>3. SettingUp' => SettingUp
  BY <1>2 DEF SettingUp
<1>4. user_sock_u \in Sock_U /\ user_sock_u # NULL /\ Connected
  <2>1. CASE rpc = "poll"
    BY <1>1, <2>1
    DEF RcvStep, RcvPoll, RcvCall, RcvDatagram, RcvHandle, RcvCopy, RcvLen, RcvAddr,
        RcvPost, RcvErrClose, RcvErrNum, RcvErrConn, RcvErrPost, RcvAt, TypeOK, Connected
  <2>2. CASE rpc # "poll"
    BY <1>1, <2>2, RecordThere DEF Connected
  <2> QED BY <2>1, <2>2
<1>5. CASE ~RcvErrPost
  <2>1. Same("MSG_NET_UP") /\ Same("MSG_NET_DOWN") /\ Same("MSG_SOCKET_ERR")
    <3>1. queue' = queue \/ queue' = Post(queue, <<"MSG_SOCKET_SND">>)
      BY <1>5
      DEF RcvStep, RcvPoll, RcvCall, RcvDatagram, RcvHandle, RcvCopy, RcvLen, RcvAddr,
          RcvPost, RcvErrClose, RcvErrNum, RcvErrConn
    <3> QED BY <1>1, <3>1, SetupQueue
  <2>2. rpc' = "errpost" => user_sock_u'.conn_status = 0
    BY <1>4, <1>5
    DEF RcvStep, RcvPoll, RcvCall, RcvDatagram, RcvHandle, RcvCopy, RcvLen, RcvAddr,
        RcvPost, RcvErrClose, RcvErrNum, RcvErrConn, Sock_U
  <2> QED BY <1>2, <1>3, <1>4, <2>1, <2>2, SetupQuiet
<1>6. CASE RcvErrPost
  <2>1. /\ queue' = Post(queue, <<"MSG_SOCKET_ERR">>) /\ UNCHANGED user_sock_u
        /\ rpc = "errpost" /\ rpc' = "poll"
    BY <1>6 DEF RcvErrPost, RcvAt
  <2>2. ~Connected' /\ netif = "ip" /\ ~InQueue("MSG_NET_UP") /\ ~SettingUp
        /\ ~InQueue("MSG_SOCKET_ERR")
    BY <1>4, <2>1 DEF SetupOnce, Connected
  <2>3. Same("MSG_NET_UP") /\ Same("MSG_NET_DOWN")
    BY <1>1, <2>1, PostOther
  <2>4. Once("MSG_SOCKET_ERR")'
    BY <1>1, <2>1, <2>2, PostCount DEF SetupOnce
  <2> QED BY <1>2, <1>3, <2>1, <2>2, <2>3, <2>4 DEF SetupOnce, Same
<1> QED BY <1>5, <1>6

\* A stable network is reported up once.
LEMMA SetupEnv ==
  ASSUME IInv, SetupOnce, Stable, EnvStep PROVE SetupOnce'
<1>1. /\ QueueTypeOK
      /\ "MSG_NET_UP" \in Messages /\ "MSG_NET_DOWN" \in Messages
      /\ "MSG_SOCKET_ERR" \in Messages
  BY DEF IInv, TypeOK, Messages
<1>2. UNCHANGED <<wpc, rpc, user_sock_u>>
  BY DEF EnvStep, Join, GotAddr, AddrChange, Disconnect, IfDown, OneshotDone, Deliver,
         EnvOnly, wifiVars
<1>3. SettingUp' = SettingUp /\ Connected' = Connected
  BY <1>2 DEF SettingUp, Connected
<1>4. CASE GotAddr
  <2>1. /\ netif = "joined" /\ netif' = "ip"
        /\ queue' = queue \/ queue' = Post(queue, <<"MSG_NET_UP">>)
    BY <1>4 DEF GotAddr, ReportNetUp
  <2>2. Same("MSG_SOCKET_ERR") /\ Same("MSG_NET_DOWN")
    BY <1>1, <2>1, PostOther
  <2>3. Once("MSG_NET_UP")'
    <3>1. CASE queue' = queue
      BY <3>1 DEF SetupOnce, Once
    <3>2. CASE queue' # queue
      BY <1>1, <2>1, <3>2, PostCount DEF SetupOnce
    <3> QED BY <3>1, <3>2
  <2> QED BY <1>2, <1>3, <2>1, <2>2, <2>3 DEF SetupOnce, Same
<1>5. CASE ~GotAddr
  <2>1. /\ UNCHANGED queue
        /\ UNCHANGED netif \/ (netif = "down" /\ netif' = "joined")
    BY <1>5
    DEF EnvStep, Join, AddrChange, Disconnect, IfDown, OneshotDone, Deliver, netVars,
        SetupOnce, Stable
  <2>2. \A m \in Messages : Same(m)
    BY <2>1 DEF Same, InQueue, Once
  <2> QED BY <1>1, <1>2, <1>3, <2>1, <2>2 DEF SetupOnce, Same
<1> QED BY <1>4, <1>5

\* No step has the socket set up twice.
LEMMA SetupStep ==
  ASSUME IInv, SetupOnce, Next PROVE SetupOnce'
<1> SUFFICES ASSUME Stable PROVE SetupOnce'
  BY DEF SetupOnce, Stable
<1>1. CASE TimerStep \/ Halted
  <2>1. UNCHANGED <<wpc, rpc, user_sock_u, netif>>
    BY <1>1 DEF TimerStep, TimerScan, TimerCheck, TimerBlink, TimerAt, Halted, vars,
                wifiVars, netVars
  <2>2. \/ queue' = queue
        \/ queue' = Post(queue, <<"MSG_KEY">>)
        \/ queue' = Post(queue, <<"MSG_ONESHOT">>)
    BY <1>1, PostNothing
    DEF TimerStep, TimerScan, TimerCheck, TimerBlink, KS!KeyMsgs, Halted, vars
  <2>3. Same("MSG_NET_UP") /\ Same("MSG_NET_DOWN") /\ Same("MSG_SOCKET_ERR")
    BY <2>2, SetupQueue DEF IInv, TypeOK
  <2> QED BY <2>1, <2>3 DEF SetupOnce, Same, SettingUp, Connected
<1> QED BY <1>1, SetupWifi, SetupRcv, SetupEnv DEF Next

SInv == IInv /\ OneAnswer /\ AnswerAgrees /\ SetupOnce

\* Nothing has been asked when the tasks are created.
LEMMA InitSInv == Init => SInv
<1> SUFFICES ASSUME Init PROVE SInv
  OBVIOUS
<1>1. OneAnswer
  BY DEF Init, OneAnswer, Once, Filling, InQueue
<1>2. AnswerAgrees
  BY DEF Init, AnswerAgrees, AnswerPending, InQueue, Filling
<1>3. SetupOnce
  BY DEF Init, SetupOnce, Once, InQueue, SettingUp, Connected
<1> QED BY <1>1, <1>2, <1>3, InitIInv DEF SInv

\* Every step keeps an answer that was not overtaken in one place and whole.
LEMMA RequestStep ==
  ASSUME SInv, Next PROVE OneAnswer' /\ AnswerAgrees'
<1>1. CASE \/ WifiSnd \/ WifiSent \/ RcvDatagram \/ RcvHandle \/ RcvCopy \/ RcvLen
           \/ RcvAddr \/ RcvPost
  BY <1>1, SndKeeps, SentKeeps, HandleKeeps, CopyKeeps, FillKeeps, PostKeeps DEF SInv
<1>2. CASE ~(\/ WifiSnd \/ WifiSent \/ RcvDatagram \/ RcvHandle \/ RcvCopy \/ RcvLen
             \/ RcvAddr \/ RcvPost)
  BY <1>2, OtherSteps, AsideKeeps DEF SInv, IInv
<1> QED BY <1>1, <1>2

\* SInv is inductive, whether hosts wait for their answers or not.
LEMMA StepSInv ==
  ASSUME SInv, [Next]_vars PROVE SInv'
<1>1. IInv'
  BY StepIInv DEF SInv
<1>2. CASE Next
  BY <1>1, <1>2, RequestStep, SetupStep DEF SInv
<1>3. CASE UNCHANGED vars
  <2>1. OneAnswer' /\ AnswerAgrees' /\ SetupOnce'
    BY <1>3
    DEF SInv, vars, wifiVars, rcvVars, histVars, lwipVars, netVars, OneAnswer,
        AnswerAgrees, AnswerPending, Filling, SetupOnce, Once, InQueue, SettingUp,
        Connected
  <2> QED BY <1>1, <2>1 DEF SInv
<1> QED BY <1>2, <1>3

\* In every reachable state, for any number of hosts and however their requests
\* overlap, an answer that was not copied over a pending one is in one place, and
\* the buffers filled so far are its own.
THEOREM ServiceInvariant == Spec => []SInv
<1>1. Init => SInv
  BY InitSInv
<1>2. SInv /\ [Next]_vars => SInv'
  BY StepSInv
<1> QED BY <1>1, <1>2, PTL DEF Spec

\* Every answer goes to the host that asked, with its own bytes and length, unless
\* it was copied into the record while another answer was pending.
THEOREM UdpReplyMatches == Spec => []ReplyMatches
<1>1. SInv => ReplyMatches
  BY DEF SInv, AnswerAgrees, AnswerPending, ReplyMatches
<1>2. Spec => []SInv
  BY ServiceInvariant
<1> QED BY <1>1, <1>2, PTL

\* A step of the service or none.
Served == [Service!Next]_(Service!vars)

\* A step that changes neither the request in service nor the answer being sent.
LEMMA Stutter ==
  ASSUME InService' = InService, InSendto' = InSendto, UNCHANGED overlap PROVE Served
BY DEF Served, Service!vars

\* After an overtaking request any step that copies no other answer is allowed.
LEMMA MixedServed ==
  ASSUME overlap = 1, UNCHANGED overlap PROVE Served
<1>1. Service!Unpromised
  BY DEF Service!Unpromised
<1> QED BY <1>1 DEF Served, Service!Next

\* The steps that have nothing to do with an answer are invisible.
LEMMA AsideServed == ASSUME TypeOK, RecordBeforeUse, Aside PROVE Served
<1>1. InService' = InService /\ UNCHANGED overlap
  BY DEF Aside, Same, InService, Serving, Filling, histVars
<1>2. InSendto' = InSendto
  <2>1. wpc = "send" => user_sock_u # NULL
    BY DEF RecordBeforeUse
  <2> QED BY <2>1 DEF Aside, SameAnswer, InSendto
<1> QED BY <1>1, <1>2, Stutter

\* The WiFi task passes the answer to sendto, or drops an answer without bytes,
\* which no command has.
LEMMA SndServed == ASSUME SInv, WifiSnd, overlap = 0 PROVE Served
<1>1. /\ ans \in Datagrams /\ ans # NULL /\ UNCHANGED <<ans, overlap, rpc, user_sock_u>>
      /\ wpc = "idle" /\ InQueue("MSG_SOCKET_SND") /\ ~InQueue("MSG_SOCKET_SND")'
      /\ AnswerPending
  BY TakeCount, NullAssumption
  DEF SInv, IInv, TypeOK, RcvTypeOK, OneAnswer, Messages, WifiSnd, Receive, rcvVars,
      histVars, AnswerPending
<1>2. InService = ans /\ InService' = NULL /\ InSendto = NULL
  BY <1>1 DEF SInv, OneAnswer, InService, InSendto, Filling
<1>3. /\ user_sock_u.sock_tx = AnswerTo(ans)
      /\ user_sock_u.tx_len \in AnswerLens(ans)
      /\ user_sock_u.remote = ans.from
  BY <1>1 DEF SInv, AnswerAgrees
<1>4. CASE user_sock_u.tx_len > 0
  <2>1. InSendto' = [to |-> ans.from, data |-> AnswerTo(ans), len |-> user_sock_u.tx_len]
    BY <1>1, <1>3, <1>4 DEF WifiSnd, InSendto
  <2>2. user_sock_u.tx_len \in CASE ans.kind = "write" -> {WriteAckLen}
                                 [] ans.kind = "read"  -> {ReadAckLen}
                                 [] OTHER              -> 1..(U16 - 1)
    <3>1. CASE ans.kind = "write" \/ ans.kind = "read"
      BY <1>3, <3>1 DEF AnswerLens
    <3>2. CASE ~(ans.kind = "write" \/ ans.kind = "read")
      <4>1. user_sock_u.tx_len \in 0..(U16 - 1)
        BY <1>3, <3>2 DEF AnswerLens
      <4>2. user_sock_u.tx_len \in 1..(U16 - 1)
        BY <1>4, <4>1, UdpAssumption
      <4> QED BY <3>2, <4>2
    <3> QED BY <3>1, <3>2
  <2>3. InSendto' \in Service!Replies(InService)
    BY <1>2, <2>1, <2>2 DEF Service!Replies, Service!IsCommand, AnswerTo
  <2>4. Service!Answer
    BY <1>1, <1>2, <2>3 DEF Service!Answer
  <2> QED BY <2>4 DEF Served, Service!Next
<1>5. CASE ~(user_sock_u.tx_len > 0)
  <2>1. InSendto' = InSendto
    BY <1>1, <1>5 DEF WifiSnd, InSendto
  <2>2. ans.kind \notin {"write", "read"}
    BY <1>3, <1>5, UdpAssumption DEF AnswerLens
  <2>3. Service!Drop
    BY <1>1, <1>2, <2>1, <2>2 DEF Service!Drop, Service!IsCommand
  <2> QED BY <2>3 DEF Served, Service!Next
<1> QED BY <1>4, <1>5

\* sendto returns.
LEMMA SentServed == ASSUME SInv, WifiSent, overlap = 0 PROVE Served
<1>1. UNCHANGED <<queue, rpc, ans, overlap>> /\ wpc = "send" /\ wpc' = "idle"
  BY SentOnce DEF SInv, WifiSent, rcvVars, histVars
<1>2. InService' = InService
  BY <1>1 DEF InService, Filling, InQueue
<1>3. InSendto \in Replies
  <2>1. user_sock_u \in Sock_U /\ call \in CallType
    BY <1>1, RecordThere DEF SInv, IInv, TypeOK, WifiTypeOK
  <2> QED BY <1>1, <2>1 DEF InSendto, Replies, Sock_U, CallType
<1>4. InSendto # NULL /\ InSendto' = NULL
  BY <1>1, <1>3, NullAssumption DEF InSendto
<1>5. Service!Sent
  BY <1>1, <1>2, <1>4 DEF Service!Sent
<1> QED BY <1>5 DEF Served, Service!Next

\* An answer copied while none is pending takes its request into service; one
\* copied over a pending answer overtakes it.
LEMMA CopyServed == ASSUME SInv, RcvCopy PROVE Served
<1>1. /\ UNCHANGED <<queue, wpc, call>> /\ rpc = "copy" /\ rpc' = "len"
      /\ rx \in Datagrams /\ ans' = rx /\ overlap' = IF AnswerPending THEN 1 ELSE 0
  BY DEF RcvCopy, RcvAt, wifiVars, SInv, IInv, TypeOK, RcvTypeOK
<1>2. InService' = rx
  BY <1>1 DEF InService, Filling
<1>3. user_sock_u \in Sock_U /\ user_sock_u'.sock_tx = ack.data
      /\ ack.data \in Datagrams \cup {NoData}
  <2>1. user_sock_u \in Sock_U
    BY <1>1, RecordThere DEF SInv, IInv
  <2> QED BY <2>1 DEF RcvCopy, Sock_U, SInv, IInv, TypeOK, RcvTypeOK
<1>4. CASE ~AnswerPending
  <2>1. InService = NULL /\ InSendto = NULL /\ InSendto' = NULL
    BY <1>1, <1>4 DEF AnswerPending, InService, InSendto, Filling
  <2>2. Service!Take
    BY <1>1, <1>2, <1>4, <2>1 DEF Service!Take
  <2> QED BY <2>2 DEF Served, Service!Next
<1>5. CASE AnswerPending /\ wpc = "send"
  <2>1. call \in CallType
    BY DEF SInv, IInv, TypeOK, WifiTypeOK
  <2>2. InSendto = [to |-> call.to, data |-> user_sock_u.sock_tx, len |-> call.len]
    BY <1>5 DEF InSendto
  <2>3. InSendto \in Replies /\ InSendto # NULL
    BY <1>3, <2>1, <2>2, NullAssumption DEF Replies, Sock_U, CallType
  <2>4. InSendto' = [to |-> call.to, data |-> ack.data, len |-> call.len]
    BY <1>1, <1>3, <1>5 DEF InSendto
  <2>5. InSendto' = [InSendto EXCEPT !.data = ack.data]
    BY <2>2, <2>4
  <2>6. Service!Overtake
    BY <1>1, <1>2, <1>3, <1>5, <2>3, <2>5 DEF Service!Overtake
  <2> QED BY <2>6 DEF Served, Service!Next
<1>6. CASE AnswerPending /\ wpc # "send"
  <2>1. InSendto' = InSendto
    BY <1>1, <1>6 DEF InSendto
  <2>2. InService # NULL
    BY <1>6, NullAssumption
    DEF AnswerPending, InService, SInv, IInv, TypeOK, RcvTypeOK
  <2>3. Service!Overtake
    BY <1>1, <1>2, <1>6, <2>1, <2>2 DEF Service!Overtake
  <2> QED BY <2>3 DEF Served, Service!Next
<1> QED BY <1>4, <1>5, <1>6

\* An answer handed over stays in service until the WiFi task takes it.  A full
\* queue loses it; with a stable network the queue is empty then, because the
\* WiFi task is blocked in tls_os_queue_receive and in nothing else.
LEMMA PostServed == ASSUME SInv, RcvPost, overlap = 0 PROVE Served
<1>1. /\ rpc = "post" /\ Filling /\ ~Filling' /\ ~InQueue("MSG_SOCKET_SND")
      /\ wpc # "send" /\ wpc' # "send" /\ UNCHANGED <<ans, overlap>>
  BY PostKeeps DEF SInv, OneAnswer, AnswerPending
<1>2. InService = ans /\ InSendto = NULL /\ InSendto' = NULL /\ ans # NULL
  BY <1>1, NullAssumption DEF InService, InSendto, SInv, IInv, TypeOK, RcvTypeOK
<1>3. CASE InQueue("MSG_SOCKET_SND")'
  <2>1. InService' = InService
    BY <1>1, <1>2, <1>3 DEF InService
  <2> QED BY <1>1, <1>2, <2>1, Stutter
<1>4. CASE ~InQueue("MSG_SOCKET_SND")'
  <2>1. InService' = NULL
    BY <1>1, <1>4 DEF InService
  <2>2. ~Stable
    <3> SUFFICES ASSUME Stable PROVE FALSE
      OBVIOUS
    <3>1. user_sock_u # NULL
      BY <1>1, RecordThere DEF SInv, IInv
    <3>2. ~SettingUp /\ wpc # "close"
      BY <1>1, <3>1 DEF SInv, SetupOnce, Connected
    <3>3. wpc = "idle"
      BY <1>1, <3>2 DEF SettingUp, SInv, IInv, TypeOK, WifiTypeOK, WifiStates
    <3>4. queue = <<>> /\ queue' = Post(queue, <<"MSG_SOCKET_SND">>)
      BY <3>3 DEF RcvPost, RcvAt, WifiBlocked
    <3>5. queue' = <<"MSG_SOCKET_SND">>
      BY <3>4, UdpAssumption DEF Post
    <3>6. InQueue("MSG_SOCKET_SND")'
      BY <3>5 DEF InQueue
    <3> QED BY <1>4, <3>6
  <2>3. Service!Drop
    BY <1>1, <1>2, <2>1, <2>2 DEF Service!Drop, Stable
  <2> QED BY <2>3 DEF Served, Service!Next
<1> QED BY <1>3, <1>4

\* Every step of the tasks, the timer and the environment is a step of the
\* service or invisible to it.
LEMMA StepServed ==
  ASSUME SInv, [Next]_vars PROVE [Service!Next]_(Service!vars)
<1>1. CASE RcvDatagram \/ RcvHandle
  <2>1. /\ ~Filling /\ ~Filling'
        /\ UNCHANGED <<queue, wpc, call, user_sock_u, ans, overlap>>
    BY <1>1, HandleKeeps DEF SInv
  <2>2. InService' = InService /\ InSendto' = InSendto
    BY <2>1 DEF InService, InSendto, InQueue
  <2> QED BY <2>1, <2>2, Stutter DEF Served
<1>2. CASE RcvLen \/ RcvAddr
  <2>1. /\ Filling /\ Filling' /\ UNCHANGED <<queue, wpc, call, ans, overlap>>
        /\ user_sock_u'.sock_tx = user_sock_u.sock_tx
    BY <1>2, FillKeeps DEF SInv
  <2>2. InService' = InService /\ InSendto' = InSendto
    BY <2>1 DEF InService, InSendto
  <2> QED BY <2>1, <2>2, Stutter DEF Served
<1>3. CASE UNCHANGED vars
  <2>1. InService' = InService /\ InSendto' = InSendto /\ UNCHANGED overlap
    BY <1>3 DEF InService, InSendto, Filling, InQueue, vars, wifiVars, rcvVars, histVars
  <2> QED BY <2>1, Stutter DEF Served
<1>4. CASE WifiSnd \/ WifiSent \/ RcvPost
  <2>1. UNCHANGED overlap /\ overlap \in {0, 1}
    BY <1>4
    DEF WifiSnd, WifiSent, RcvPost, rcvVars, histVars, SInv, IInv, TypeOK, RcvTypeOK
  <2> QED BY <1>4, <2>1, SndServed, SentServed, PostServed, MixedServed DEF Served
<1>5. CASE RcvCopy
  BY <1>5, CopyServed DEF Served
<1>6. CASE /\ Next
           /\ ~(\/ WifiSnd \/ WifiSent \/ RcvDatagram \/ RcvHandle \/ RcvCopy \/ RcvLen
                \/ RcvAddr \/ RcvPost)
  BY <1>6, OtherSteps, AsideServed DEF SInv, IInv, Served
<1> QED BY <1>1, <1>2, <1>3, <1>4, <1>5, <1>6

\* The tasks, the queue and the shared record implement the service, for any
\* number of hosts, waiting or not, with overlapping requests or without.
THEOREM UdpServiceRefined == Spec => ServiceRefined
<1>1. Init => Service!Init
  BY DEF Init, Service!Init, InService, InSendto, Filling, InQueue
<1>2. SInv /\ [Next]_vars => [Service!Next]_(Service!vars)
  BY StepServed
<1>3. Spec => []SInv
  BY ServiceInvariant
<1> QED BY <1>1, <1>2, <1>3, PTL DEF Spec, ServiceRefined, Service!Spec
=============================================================================
