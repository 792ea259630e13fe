---------------------------- MODULE MulticoreProofs ----------------------------
(***************************************************************************)
(* Lockouts are sound for FIFOs of any depth, and whatever number of       *)
(* handshakes has timed out and left its words behind.                     *)
(***************************************************************************)
EXTENDS Multicore, SequenceTheorems, TLAPS

Handshaking == {"check", "push", "check2", "pop", "wfe", "woke", "restore"}

(* What a call in progress knows.                                          *)
CallSound(c) ==
    /\ owner = c <=> place[c] \in Handshaking \cup {"finish", "panic"}
    /\ place[c] = "idle" <=> magic[c] = None
    /\ place[c] # "idle" => Other(c) \in victim /\ ~masked[c]
    /\ c \in holds => Other(c) \in victim
    /\ magic[c] = "start" => c \notin holds
    /\ magic[c] = "end" => c \in holds
    /\ rc[c] => place[c] \in {"restore", "finish"}
    /\ place[c] \in {"restore", "finish"} => rc[c] \/ c \in stray
    /\ place[c] = "panic" => stray # {} /\ Other(c) \in holds

CallsSound == \A c \in Cores : CallSound(c)

(* A core that makes a handshake has its own handler disabled.             *)
HandlerSound(c) ==
    /\ enabled[c] <=> c \in victim /\ place[c] \notin Handshaking \cup {"panic"}
    /\ place[c] \in Handshaking => was_enabled[c] = (c \in victim) /\ handler[c] = "off"
    /\ handler[c] # "off" => c \in victim

HandlersSound == \A c \in Cores : HandlerSound(c)

FlagSound == lockout_in_progress <=> holds # {}

(* What the words of a FIFO are: all the same, or the same from some point *)
(* on.                                                                     *)
Only(word, q) == \A i \in DOMAIN q : q[i] = word
EndsIn(word, q) == \A i, j \in DOMAIN q : i < j /\ q[i] = word => q[j] = word

(* r has the lockout, or will have when its call returns.                  *)
Has(r) == IF rc[r] THEN magic[r] = "start" ELSE r \in holds

Quiet(r) == fifo[r] = <<>> /\ handler[r] = "off"

(* Where the words are that r has sent to v, and their echoes, when r has  *)
(* no lockout.  Requests of handshakes that timed out come before later    *)
(* ones; v obeys the first "start".  In the end its echo may lock up r.    *)
Asks(r, v) ==
    \/ handler[v] \in {"off", "read"} /\ EndsIn("start", fifo[v]) /\ Quiet(r)
    \/ handler[v] = "echo" /\ Only("start", fifo[v]) /\ Quiet(r)
    \/ /\ LockedOut(v) /\ Only("start", fifo[v])
       /\ \/ fifo[r] = <<"start">> /\ handler[r] \in {"off", "read"}
          \/ fifo[r] = <<>> /\ handler[r] \in {"echo", "loop", "wfe"}

(* The same when r has one: v obeys the first "end".                       *)
Keeps(r, v) ==
    \/ LockedOut(v) /\ EndsIn("end", fifo[v]) /\ Quiet(r)
    \/ handler[v] = "echo_end" /\ Only("end", fifo[v]) /\ Quiet(r)
    \/ /\ handler[v] \in {"off", "read"} /\ Only("end", fifo[v])
       /\ fifo[r] \in {<<>>, <<"end">>} /\ handler[r] \in {"off", "read"}

(* Nothing of r's is under way: its handshake has succeeded, or has sent   *)
(* no word yet and none has timed out.                                     *)
Undisturbed(r) ==
    rc[r] \/ (r \notin stray /\ place[r] \in {"idle", "mutex", "check", "push"})

(* r is the core whose requests are under way, if any are: nobody else has *)
(* asked since it last did.                                                *)
Requester(r, v) ==
    /\ owner = v => place[v] = "panic"
    /\ v \notin holds
    /\ fifo[v] # <<>> => v \in victim
    /\ Has(r) => Keeps(r, v)
    /\ ~Has(r) => Asks(r, v)
    /\ Undisturbed(r) /\ Has(r) =>
           LockedOut(v) /\ Only("start", fifo[v]) /\ Quiet(r)
    /\ Undisturbed(r) /\ ~Has(r) =>
           handler[v] \in {"off", "read"} /\ Only("end", fifo[v]) /\ Quiet(r)

IInv ==
    /\ TypeOK /\ CallsSound /\ HandlersSound /\ FlagSound /\ PopIsWoken
    /\ \E r \in Cores : Requester(r, Other(r))

----------------------------------------------------------------------------
(* The two cores.                                                          *)

LEMMA OtherCore ==
    ASSUME NEW c \in Cores
    PROVE  /\ Other(c) \in Cores /\ Other(c) # c /\ Other(Other(c)) = c
           /\ Cores = {c, Other(c)} /\ c # None
<1>1. PICK a \in Cores, b \in Cores : a # b /\ Cores = {a, b}
  BY MulticoreAssumption
<1>2. \A d \in Cores : \E e \in Cores : e # d /\ \A f \in Cores : f # d => f = e
  BY <1>1
<1>3. \A d \in Cores : Other(d) \in Cores /\ Other(d) # d
  BY <1>2 DEF Other
<1> QED  BY <1>1, <1>2, <1>3, MulticoreAssumption

----------------------------------------------------------------------------
(* Words in a FIFO.                                                        *)

LEMMA NoWords == ASSUME NEW w PROVE Only(w, <<>>) /\ EndsIn(w, <<>>)
BY DEF Only, EndsIn

LEMMA OneWord ==
    ASSUME NEW w \in Words
    PROVE  /\ Append(<<>>, w) = <<w>> /\ <<w>> # <<>>
           /\ Head(<<w>>) = w /\ Tail(<<w>>) = <<>>
OBVIOUS

LEMMA OnlyEnds == ASSUME NEW w, NEW u, NEW q, Only(w, q) PROVE EndsIn(u, q)
BY DEF Only, EndsIn

LEMMA Appended ==
    ASSUME NEW q \in Seq(Words), NEW w \in Words
    PROVE  /\ Append(q, w) \in Seq(Words) /\ Append(q, w) # <<>>
           /\ Len(Append(q, w)) = Len(q) + 1
           /\ Only(w, q) => Only(w, Append(q, w))
           /\ EndsIn(w, q) => EndsIn(w, Append(q, w))
<1>1. /\ Append(q, w) \in Seq(Words) /\ Len(Append(q, w)) = Len(q) + 1
      /\ \A i \in 1 .. Len(q) : Append(q, w)[i] = q[i]
      /\ Append(q, w)[Len(q) + 1] = w
      /\ Len(q) \in Nat
  OBVIOUS
<1>2. DOMAIN Append(q, w) = 1 .. Len(q) + 1 /\ DOMAIN q = 1 .. Len(q)
  BY <1>1
<1>3. Append(q, w) # <<>>
  BY <1>1
<1> QED  BY <1>1, <1>2, <1>3 DEF Only, EndsIn

LEMMA Taken ==
    ASSUME NEW q \in Seq(Words), q # <<>>
    PROVE  /\ Head(q) \in Words /\ Tail(q) \in Seq(Words)
           /\ Len(Tail(q)) = Len(q) - 1
           /\ \A w \in Words :
                 /\ Only(w, q) => Head(q) = w /\ Only(w, Tail(q))
                 /\ EndsIn(w, q) => EndsIn(w, Tail(q))
                 /\ EndsIn(w, q) /\ Head(q) = w => Only(w, Tail(q))
<1>1. /\ Head(q) = q[1] /\ Tail(q) \in Seq(Words) /\ Len(Tail(q)) = Len(q) - 1
      /\ Len(q) \in Nat /\ Len(q) >= 1
      /\ \A i \in 1 .. Len(q) - 1 : Tail(q)[i] = q[i + 1]
  OBVIOUS
<1>2. DOMAIN Tail(q) = 1 .. Len(q) - 1 /\ DOMAIN q = 1 .. Len(q) /\ q[1] \in Words
  BY <1>1
<1> QED  BY <1>1, <1>2 DEF Only, EndsIn

----------------------------------------------------------------------------
(* The types.                                                              *)

LEMMA SendsDoes ==
    ASSUME TypeOK, NEW c \in Cores, NEW w \in Words, Sends(c, w)
    PROVE  /\ fifo' \in [Cores -> Seq(Words)]
           /\ \A d \in Cores : Len(fifo'[d]) <= Depth
           /\ event' \in [Cores -> BOOLEAN]
           /\ fifo'[c] = fifo[c] /\ fifo'[Other(c)] = Append(fifo[Other(c)], w)
           /\ event'[c] = event[c] /\ event'[Other(c)] = TRUE
<1>1. /\ Other(c) \in Cores /\ Other(c) # c /\ \A d \in Cores : d = c \/ d = Other(c)
      /\ Depth \in Nat
  BY OtherCore, MulticoreAssumption
<1>2. /\ fifo' = [fifo EXCEPT ![Other(c)] = Append(@, w)]
      /\ event' = [event EXCEPT ![Other(c)] = TRUE]
      /\ Len(fifo[Other(c)]) < Depth
  BY DEF Sends, HasRoom
<1>3. /\ fifo \in [Cores -> Seq(Words)] /\ event \in [Cores -> BOOLEAN]
      /\ \A d \in Cores : Len(fifo[d]) <= Depth
  BY DEF TypeOK
<1> DEFINE q == fifo[Other(c)]
<1>4. q \in Seq(Words) /\ Append(q, w) \in Seq(Words) /\ Len(Append(q, w)) = Len(q) + 1
  BY <1>1, <1>3, Appended
<1>5. fifo'[c] = fifo[c] /\ fifo'[Other(c)] = Append(q, w)
  BY <1>1, <1>2, <1>3
<1>6. Len(q) \in Nat
  BY <1>4
<1> HIDE DEF q
<1>7. fifo' \in [Cores -> Seq(Words)]
  BY <1>1, <1>2, <1>3, <1>4 DEF q
<1>8. \A d \in Cores : Len(fifo'[d]) <= Depth
  BY <1>1, <1>2, <1>3, <1>4, <1>5, <1>6 DEF q
<1> QED  BY <1>1, <1>2, <1>3, <1>5, <1>7, <1>8 DEF q

LEMMA TakesDoes ==
    ASSUME TypeOK, NEW c \in Cores, NEW w \in Words, Takes(c, w)
    PROVE  /\ fifo' \in [Cores -> Seq(Words)]
           /\ \A d \in Cores : Len(fifo'[d]) <= Depth
           /\ fifo[c] # <<>> /\ Head(fifo[c]) = w /\ fifo'[c] = Tail(fifo[c])
           /\ fifo'[Other(c)] = fifo[Other(c)] /\ event' = event
<1>1. /\ Other(c) \in Cores /\ Other(c) # c /\ \A d \in Cores : d = c \/ d = Other(c)
      /\ Depth \in Nat
  BY OtherCore, MulticoreAssumption
<1>2. /\ fifo' = [fifo EXCEPT ![c] = Tail(@)] /\ event' = event
      /\ fifo[c] # <<>> /\ Head(fifo[c]) = w
  BY DEF Takes, Valid
<1>3. fifo \in [Cores -> Seq(Words)] /\ \A d \in Cores : Len(fifo[d]) <= Depth
  BY DEF TypeOK
<1> DEFINE q == fifo[c]
<1>4. q \in Seq(Words) /\ Tail(q) \in Seq(Words) /\ Len(Tail(q)) = Len(q) - 1
  BY <1>2, <1>3, Taken
<1>5. fifo'[c] = Tail(q) /\ fifo'[Other(c)] = fifo[Other(c)]
  BY <1>1, <1>2, <1>3
<1>6. Len(q) \in Nat
  BY <1>4
<1> HIDE DEF q
<1>7. fifo' \in [Cores -> Seq(Words)]
  BY <1>1, <1>2, <1>3, <1>4 DEF q
<1>8. \A d \in Cores : Len(fifo'[d]) <= Depth
  BY <1>1, <1>2, <1>3, <1>4, <1>5, <1>6 DEF q
<1> QED  BY <1>2, <1>5, <1>7, <1>8 DEF q

LEMMA HandlerKeepsTypes ==
    ASSUME TypeOK, NEW c \in Cores, Handler(c)
    PROVE  TypeOK'
<1> USE OtherCore DEF TypeOK, hardware, irq, local, lockout, HandlerGoes, Words
<1>1. CASE HandlerEnters(c)
  BY <1>1 DEF HandlerEnters
<1>2. CASE HandlerReads(c)
  BY <1>2, TakesDoes DEF HandlerReads
<1>3. CASE HandlerReturns(c)
  BY <1>3 DEF HandlerReturns
<1>4. CASE HandlerEchoesStart(c)
  BY <1>4, SendsDoes DEF HandlerEchoesStart
<1>5. CASE HandlerPops(c)
  BY <1>5, TakesDoes DEF HandlerPops
<1>6. CASE HandlerSleeps(c)
  BY <1>6 DEF HandlerSleeps
<1>7. CASE HandlerWakes(c)
  BY <1>7 DEF HandlerWakes, Wakes
<1>8. CASE HandlerEchoesEnd(c)
  BY <1>8, SendsDoes DEF HandlerEchoesEnd
<1> QED  BY <1>1, <1>2, <1>3, <1>4, <1>5, <1>6, <1>7, <1>8 DEF Handler

LEMMA CallKnows ==
    ASSUME TypeOK, CallsSound, NEW c \in Cores
    PROVE  /\ magic[c] \in Words \/ magic[c] = None
           /\ CallSound(c)
           /\ place[c] # "idle" => magic[c] \in Words
<1>1. CallSound(c)
  BY DEF CallsSound
<1>2. magic[c] \in Words \/ magic[c] = None
  BY DEF TypeOK
<1> QED  BY <1>1, <1>2 DEF CallSound

LEMMA Pushes ==
    ASSUME TypeOK, CallsSound, NEW c \in Cores, HandshakePushes(c)
    PROVE  /\ magic[c] \in Words
           /\ fifo' \in [Cores -> Seq(Words)]
           /\ \A d \in Cores : Len(fifo'[d]) <= Depth
           /\ event' \in [Cores -> BOOLEAN]
           /\ fifo'[c] = fifo[c]
           /\ fifo'[Other(c)] = Append(fifo[Other(c)], magic[c])
           /\ event'[c] = event[c] /\ event'[Other(c)] = TRUE
<1>1. place[c] = "push"
  BY DEF HandshakePushes, ThreadGoes
<1>2. magic[c] \in Words
  BY <1>1, CallKnows
<1>3. Sends(c, magic[c])
  BY DEF HandshakePushes
<1> QED  BY <1>2, <1>3, SendsDoes

LEMMA ThreadKeepsTypes ==
    ASSUME TypeOK, CallsSound, NEW c \in Cores, Thread(c)
    PROVE  TypeOK'
<1> USE OtherCore DEF TypeOK, hardware, irq, local, lockout, ThreadGoes, Words
<1>1. CASE EntersMutex(c)
  BY <1>1 DEF EntersMutex
<1>2. CASE GivesUpOnMutex(c)
  BY <1>2 DEF GivesUpOnMutex, Returns
<1>3. CASE HandshakeGoesOn(c)
  BY <1>3 DEF HandshakeGoesOn
<1>4. CASE HandshakeGivesUp(c)
  <2>1. magic[c] \in Words
    BY <1>4, CallKnows DEF HandshakeGivesUp
  <2>2. timeouts' \in [Words -> Nat]
    BY <1>4, <2>1 DEF HandshakeGivesUp
  <2> QED  BY <1>4, <2>2 DEF HandshakeGivesUp
<1>5. CASE HandshakePushes(c)
  BY <1>5, Pushes DEF HandshakePushes
<1>6. CASE HandshakePushTimesOut(c)
  BY <1>6 DEF HandshakePushTimesOut
<1>7. CASE HandshakePops(c)
  BY <1>7, TakesDoes DEF HandshakePops
<1>8. CASE HandshakeSleeps(c)
  BY <1>8 DEF HandshakeSleeps
<1>9. CASE HandshakeWakes(c)
  BY <1>9 DEF HandshakeWakes, Wakes
<1>10. CASE HandshakeRestores(c)
  BY <1>10 DEF HandshakeRestores
<1>11. CASE Finishes(c)
  BY <1>11 DEF Finishes, Returns, CallsSound, CallSound
<1> QED  BY <1>1, <1>2, <1>3, <1>4, <1>5, <1>6, <1>7, <1>8, <1>9, <1>10, <1>11 DEF Thread

LEMMA CallersKeepTypes ==
    ASSUME TypeOK, NEW c \in Cores,
           VictimInit(c) \/ Masks(c) \/ Unmasks(c) \/ CallStart(c) \/ CallEnd(c) \/ TimeIsUp(c)
    PROVE  TypeOK'
<1> USE OtherCore DEF TypeOK, hardware, irq, local, lockout, ThreadGoes, Words
<1>1. CASE VictimInit(c) \/ Masks(c) \/ Unmasks(c)
  BY <1>1 DEF VictimInit, Masks, Unmasks
<1>2. CASE CallStart(c)
  BY <1>2 DEF CallStart
<1>3. CASE CallEnd(c)
  BY <1>3 DEF CallEnd
<1>4. CASE TimeIsUp(c)
  BY <1>4 DEF TimeIsUp
<1> QED  BY <1>1, <1>2, <1>3, <1>4

----------------------------------------------------------------------------
(* What a call in progress knows stays true.                               *)

LEMMA CallFramed ==
    ASSUME NEW d, CallSound(d),
           place'[d] = place[d], magic'[d] = magic[d], rc'[d] = rc[d],
           masked'[d] = masked[d], victim \subseteq victim',
           owner' = d <=> owner = d, d \in holds' <=> d \in holds,
           Other(d) \in holds' <=> Other(d) \in holds, stray \subseteq stray'
    PROVE  CallSound(d)'
BY DEF CallSound

LEMMA HandlerKeepsCalls ==
    ASSUME CallsSound, NEW c \in Cores, Handler(c)
    PROVE  CallsSound'
<1>1. UNCHANGED <<irq, place, local, late, lockout>>
  BY DEF Handler, HandlerEnters, HandlerReads, HandlerReturns, HandlerEchoesStart, HandlerPops,
         HandlerSleeps, HandlerWakes, HandlerEchoesEnd, HandlerGoes
<1> QED  BY <1>1, CallFramed DEF CallsSound, irq, local, lockout

LEMMA CallersKeepCalls ==
    ASSUME TypeOK, CallsSound, NEW c \in Cores,
           VictimInit(c) \/ Masks(c) \/ Unmasks(c) \/ CallStart(c) \/ CallEnd(c) \/ TimeIsUp(c)
    PROVE  CallsSound'
<1>1. /\ Other(c) \in Cores /\ Other(c) # c /\ Other(Other(c)) = c /\ c # None
      /\ Cores = {c, Other(c)} /\ CallSound(c) /\ CallSound(Other(c))
  BY OtherCore DEF CallsSound
<1>2. /\ masked \in [Cores -> BOOLEAN] /\ rc \in [Cores -> BOOLEAN]
      /\ DOMAIN place = Cores /\ DOMAIN magic = Cores
  BY DEF TypeOK
<1> USE <1>1, <1>2, MulticoreAssumption DEF hardware, irq, local, lockout, ThreadGoes
<1>3. CASE VictimInit(c) \/ Masks(c) \/ Unmasks(c)
  <2>1. CallSound(Other(c))'
    BY <1>3, CallFramed DEF VictimInit, Masks, Unmasks
  <2>2. CallSound(c)'
    BY <1>3 DEF CallSound, VictimInit, Masks, Unmasks
  <2> QED  BY <2>1, <2>2 DEF CallsSound
<1>4. CASE CallStart(c)
  <2>1. CallSound(Other(c))'
    BY <1>4, CallFramed DEF CallStart
  <2>2. CallSound(c)'
    BY <1>4 DEF CallSound, CallStart, Handshaking, None
  <2> QED  BY <2>1, <2>2 DEF CallsSound
<1>6. CASE CallEnd(c)
  <2>1. CallSound(Other(c))'
    BY <1>6, CallFramed DEF CallEnd
  <2>2. CallSound(c)'
    BY <1>6 DEF CallSound, CallEnd, Handshaking, None
  <2> QED  BY <2>1, <2>2 DEF CallsSound
<1>5. CASE TimeIsUp(c)
  BY <1>5, CallFramed DEF CallsSound, TimeIsUp
<1> QED  BY <1>3, <1>4, <1>5, <1>6

(* An end finds the flag set; a start that finds it set means that the     *)
(* other core has the lockout, and yet this one was not locked out.        *)
LEMMA PanicsOfStray ==
    ASSUME IInv, NEW c \in Cores, EntersMutex(c),
           lockout_in_progress = (magic[c] = "start")
    PROVE  stray # {} /\ Other(c) \in holds
<1>1. /\ Other(c) \in Cores /\ Other(c) # c /\ Other(Other(c)) = c /\ c # None
      /\ Cores = {c, Other(c)} /\ CallSound(c) /\ CallSound(Other(c))
      /\ Other(c) # None
  BY OtherCore, MulticoreAssumption DEF CallsSound, IInv
<1>2. /\ handler[c] = "off" /\ place[c] = "mutex" /\ owner = None
      /\ magic[c] \in Words /\ holds \subseteq Cores
  BY CallKnows DEF EntersMutex, ThreadGoes, IInv, TypeOK
<1>3. lockout_in_progress <=> holds # {}
  BY DEF IInv, FlagSound
<1>4. /\ Other(c) \in holds /\ c \notin holds
  BY <1>1, <1>2, <1>3 DEF CallSound, Words
<1>5. Requester(Other(c), c)
  BY <1>1, <1>4 DEF IInv, Requester
<1>6. ~rc[Other(c)] /\ place[Other(c)] \in {"idle", "mutex"}
  <2>1. place[Other(c)] \in {"idle", "mutex", "panic", "check", "push", "check2", "pop", "wfe",
                             "woke", "restore", "finish"}
    BY <1>1 DEF IInv, TypeOK
  <2> QED  BY <2>1, <1>1, <1>2 DEF CallSound, Handshaking
<1>7. Has(Other(c))
  BY <1>4, <1>6 DEF Has
<1>8. CASE stray = {}
  BY <1>2, <1>5, <1>6, <1>7, <1>8 DEF Requester, Undisturbed, LockedOut
<1> QED  BY <1>4, <1>8

LEMMA ThreadKeepsCalls ==
    ASSUME IInv, NEW c \in Cores, Thread(c)
    PROVE  CallsSound'
<1>1. /\ Other(c) \in Cores /\ Other(c) # c /\ Other(Other(c)) = c /\ c # None
      /\ Cores = {c, Other(c)} /\ CallSound(c) /\ CallSound(Other(c))
      /\ Other(c) # None
  BY OtherCore, MulticoreAssumption DEF CallsSound, IInv
<1>2. /\ masked \in [Cores -> BOOLEAN] /\ rc \in [Cores -> BOOLEAN]
      /\ DOMAIN place = Cores /\ DOMAIN magic = Cores
      /\ holds \subseteq Cores /\ owner \in Cores \cup {None}
  BY DEF TypeOK, IInv
<1>3. magic[c] \in Words \/ magic[c] = None
  BY CallKnows DEF IInv
<1> USE <1>1, <1>2 DEF hardware, irq, local, lockout, ThreadGoes
<1>4. CASE EntersMutex(c)
  <2>1. CallSound(Other(c))'
    BY <1>4, CallFramed DEF EntersMutex
  <2>2. CallSound(c)'
    BY <1>4, PanicsOfStray DEF CallSound, EntersMutex, Handshaking
  <2> QED  BY <2>1, <2>2 DEF CallsSound
<1>5. CASE GivesUpOnMutex(c)
  <2>1. CallSound(Other(c))'
    BY <1>5, CallFramed DEF GivesUpOnMutex, Returns
  <2>2. CallSound(c)'
    BY <1>5 DEF CallSound, GivesUpOnMutex, Returns, Handshaking, None
  <2> QED  BY <2>1, <2>2 DEF CallsSound
<1>6. CASE HandshakeGoesOn(c) \/ HandshakePushes(c) \/ HandshakePushTimesOut(c)
           \/ HandshakeSleeps(c) \/ HandshakeWakes(c) \/ HandshakeRestores(c)
  <2>1. CallSound(Other(c))'
    BY <1>6, CallFramed DEF HandshakeGoesOn, HandshakePushes, HandshakePushTimesOut,
                            HandshakeSleeps, HandshakeWakes, HandshakeRestores
  <2>2. CallSound(c)'
    BY <1>6 DEF CallSound, Handshaking, HandshakeGoesOn, HandshakePushes,
                HandshakePushTimesOut, HandshakeSleeps, HandshakeWakes, HandshakeRestores
  <2> QED  BY <2>1, <2>2 DEF CallsSound
<1>7. CASE HandshakeGivesUp(c)
  <2>1. CallSound(Other(c))'
    BY <1>7, CallFramed DEF HandshakeGivesUp
  <2>2. CallSound(c)'
    BY <1>7 DEF CallSound, Handshaking, HandshakeGivesUp
  <2> QED  BY <2>1, <2>2 DEF CallsSound
<1>8. CASE HandshakePops(c)
  <2>1. CallSound(Other(c))'
    BY <1>8, CallFramed DEF HandshakePops
  <2>2. PICK w \in Words : /\ ThreadGoes(c, "pop", IF w = magic[c] THEN "restore" ELSE "check")
                           /\ rc' = [rc EXCEPT ![c] = w = magic[c]]
                           /\ UNCHANGED <<irq, magic, timed, was_enabled, late, lockout>>
    BY <1>8 DEF HandshakePops
  <2>3. CallSound(c)'
    BY <2>2 DEF CallSound, Handshaking
  <2> QED  BY <2>1, <2>3 DEF CallsSound
<1>9. CASE Finishes(c)
  <2>1. /\ owner = c /\ owner' = None /\ place[Other(c)] # "panic"
        /\ place[c] = "finish" /\ place' = [place EXCEPT ![c] = "idle"]
        /\ Returns(c) /\ UNCHANGED irq
    BY <1>9 DEF Finishes, CallSound
  <2>2. \A d \in Cores : d # c => (d \in holds' <=> d \in holds)
    <3>1. CASE ~rc[c]
      BY <1>9, <3>1 DEF Finishes
    <3>2. CASE rc[c] /\ magic[c] = "start"
      BY <1>9, <3>2 DEF Finishes
    <3>3. CASE rc[c] /\ magic[c] = "end"
      BY <1>9, <3>3 DEF Finishes
    <3>4. magic[c] \in Words
      BY <2>1, CallKnows DEF IInv
    <3> QED  BY <3>1, <3>2, <3>3, <3>4 DEF Words
  <2>3. CallSound(Other(c))'
    BY <2>1, <2>2 DEF CallSound, Returns, Handshaking
  <2>4. CallSound(c)'
    BY <2>1 DEF CallSound, Returns, Handshaking, None
  <2> QED  BY <2>3, <2>4 DEF CallsSound
<1> QED  BY <1>4, <1>5, <1>6, <1>7, <1>8, <1>9 DEF Thread

----------------------------------------------------------------------------
(* What is known of a core's handler stays true.                           *)

LEMMA HandlerFramed ==
    ASSUME NEW d, HandlerSound(d),
           place'[d] = place[d], enabled'[d] = enabled[d],
           was_enabled'[d] = was_enabled[d], handler'[d] = handler[d],
           d \in victim' <=> d \in victim
    PROVE  HandlerSound(d)'
BY DEF HandlerSound

LEMMA HandlersKept ==
    ASSUME IInv, NEW c \in Cores,
           \/ Handler(c) \/ Thread(c)
           \/ VictimInit(c) \/ Masks(c) \/ Unmasks(c) \/ CallStart(c) \/ CallEnd(c) \/ TimeIsUp(c)
    PROVE  HandlersSound'
<1>1. /\ Other(c) \in Cores /\ Other(c) # c /\ Cores = {c, Other(c)}
      /\ HandlerSound(c) /\ HandlerSound(Other(c)) /\ CallSound(c)
  BY OtherCore DEF CallsSound, HandlersSound, IInv
<1>2. /\ enabled \in [Cores -> BOOLEAN] /\ was_enabled \in [Cores -> BOOLEAN]
      /\ DOMAIN place = Cores /\ DOMAIN handler = Cores
  BY DEF TypeOK, IInv
<1> USE <1>1, <1>2 DEF hardware, irq, local, lockout, ThreadGoes
<1>3. CASE Handler(c)
  <2>1. /\ UNCHANGED <<place, enabled, was_enabled, victim>>
        /\ handler' = [handler EXCEPT ![c] = handler'[c]]
    BY <1>3 DEF Handler, HandlerEnters, HandlerReads, HandlerReturns, HandlerEchoesStart,
                HandlerPops, HandlerSleeps, HandlerWakes, HandlerEchoesEnd, HandlerGoes
  <2>2. handler[c] # "off" \/ enabled[c]
    BY <1>3 DEF Handler, HandlerEnters, HandlerReads, HandlerReturns, HandlerEchoesStart,
                HandlerPops, HandlerSleeps, HandlerWakes, HandlerEchoesEnd, HandlerGoes, Raised
  <2>3. HandlerSound(Other(c))'
    BY <2>1, HandlerFramed
  <2>4. HandlerSound(c)'
    BY <2>1, <2>2 DEF HandlerSound
  <2> QED  BY <2>3, <2>4 DEF HandlersSound
<1>4. CASE VictimInit(c)
  <2>1. HandlerSound(Other(c))'
    BY <1>4, HandlerFramed DEF VictimInit
  <2>2. HandlerSound(c)'
    BY <1>4 DEF HandlerSound, VictimInit, Handshaking
  <2> QED  BY <2>1, <2>2 DEF HandlersSound
<1>5. CASE TimeIsUp(c) \/ Masks(c) \/ Unmasks(c)
  BY <1>5, HandlerFramed DEF HandlersSound, TimeIsUp, Masks, Unmasks
<1>6. CASE CallStart(c) \/ CallEnd(c)
  <2>1. HandlerSound(Other(c))'
    BY <1>6, HandlerFramed DEF CallStart, CallEnd
  <2>2. HandlerSound(c)'
    BY <1>6 DEF HandlerSound, CallStart, CallEnd, Handshaking
  <2> QED  BY <2>1, <2>2 DEF HandlersSound
<1>7. CASE EntersMutex(c)
  <2>1. HandlerSound(Other(c))'
    BY <1>7, HandlerFramed DEF EntersMutex
  <2>2. HandlerSound(c)'
    BY <1>7 DEF HandlerSound, EntersMutex, Handshaking
  <2> QED  BY <2>1, <2>2 DEF HandlersSound
<1>8. CASE HandshakeRestores(c)
  <2>1. HandlerSound(Other(c))'
    BY <1>8, HandlerFramed DEF HandshakeRestores
  <2>2. HandlerSound(c)'
    BY <1>8 DEF HandlerSound, HandshakeRestores, Handshaking
  <2> QED  BY <2>1, <2>2 DEF HandlersSound
<1>9. CASE \/ HandshakeGoesOn(c) \/ HandshakeGivesUp(c) \/ HandshakePushes(c)
           \/ HandshakePushTimesOut(c) \/ HandshakePops(c) \/ HandshakeSleeps(c)
           \/ HandshakeWakes(c)
  <2>1. /\ UNCHANGED <<enabled, was_enabled, victim, handler>>
        /\ place' = [place EXCEPT ![c] = place'[c]]
        /\ place[c] \in Handshaking /\ place'[c] \in Handshaking
    BY <1>9 DEF HandshakeGoesOn, HandshakeGivesUp, HandshakePushes, HandshakePushTimesOut,
                HandshakePops, HandshakeSleeps, HandshakeWakes, Handshaking
  <2>2. HandlerSound(Other(c))'
    BY <2>1, HandlerFramed
  <2>3. HandlerSound(c)'
    BY <2>1 DEF HandlerSound
  <2> QED  BY <2>2, <2>3 DEF HandlersSound
<1>10. CASE GivesUpOnMutex(c) \/ Finishes(c)
  <2>1. HandlerSound(Other(c))'
    BY <1>10, HandlerFramed DEF GivesUpOnMutex, Finishes, Returns
  <2>2. HandlerSound(c)'
    BY <1>10 DEF HandlerSound, GivesUpOnMutex, Finishes, Returns, Handshaking
  <2> QED  BY <2>1, <2>2 DEF HandlersSound
<1> QED  BY <1>3, <1>4, <1>5, <1>6, <1>7, <1>8, <1>9, <1>10 DEF Thread

(* lockout_in_progress says that there is a lockout.                       *)
LEMMA FlagKept ==
    ASSUME IInv, NEW c \in Cores,
           \/ Handler(c) \/ Thread(c)
           \/ VictimInit(c) \/ Masks(c) \/ Unmasks(c) \/ CallStart(c) \/ CallEnd(c) \/ TimeIsUp(c)
    PROVE  FlagSound'
<1> USE DEF lockout, ThreadGoes, HandlerGoes
<1>1. CASE ~Finishes(c)
  <2>1. UNCHANGED <<lockout_in_progress, holds>>
    BY <1>1 DEF Handler, HandlerEnters, HandlerReads, HandlerReturns, HandlerEchoesStart,
                HandlerPops, HandlerSleeps, HandlerWakes, HandlerEchoesEnd,
                VictimInit, Masks, Unmasks, CallStart, CallEnd, TimeIsUp,
                Thread, EntersMutex, GivesUpOnMutex, HandshakeGoesOn, HandshakeGivesUp,
                HandshakePushes, HandshakePushTimesOut, HandshakePops, HandshakeSleeps,
                HandshakeWakes, HandshakeRestores
  <2> QED  BY <2>1 DEF FlagSound, IInv
<1>2. CASE Finishes(c)
  <2>1. /\ place[c] = "finish" /\ magic[c] \in Words /\ CallSound(c) /\ CallSound(Other(c))
        /\ Cores = {c, Other(c)} /\ holds \subseteq Cores /\ FlagSound
        /\ owner = c /\ rc[c] \in BOOLEAN /\ lockout_in_progress \in BOOLEAN
    BY <1>2, CallKnows, OtherCore DEF Finishes, IInv, TypeOK, CallsSound, CallSound
  <2>2. PICK r \in Cores : Requester(r, Other(r))
    BY DEF IInv
  <2>3. Other(r) \notin holds /\ \A d \in Cores : d = r \/ d = Other(r)
    BY <2>2, OtherCore DEF Requester
  <2>4. CASE ~rc[c]
    <3>1. holds' = holds
      BY <1>2, <2>1, <2>4 DEF Finishes
    <3>2. CASE magic[c] = "end"
      BY <1>2, <2>1, <2>4, <3>1, <3>2 DEF Finishes, FlagSound
    <3>3. CASE magic[c] = "start"
      <4>1. lockout_in_progress' = rc[c]
        BY <1>2, <3>3, Zenon DEF Finishes
      <4>2. r = c
        BY <2>1, <2>2, <2>3 DEF Requester
      <4>3. holds = {}
        BY <2>1, <2>3, <3>3, <4>2 DEF CallSound
      <4> QED  BY <2>4, <3>1, <4>1, <4>3 DEF FlagSound
    <3> QED  BY <2>1, <3>2, <3>3 DEF Words
  <2>5. CASE rc[c] /\ magic[c] = "start"
    BY <1>2, <2>5 DEF Finishes, FlagSound
  <2>6. CASE rc[c] /\ magic[c] = "end"
    <3>1. /\ lockout_in_progress' = (lockout_in_progress /\ ~rc[c])
          /\ holds' = holds \ {c}
      BY <1>2, <2>6, Zenon DEF Finishes
    <3>2. holds = {c}
      BY <2>1, <2>3, <2>6 DEF CallSound
    <3> QED  BY <2>6, <3>1, <3>2 DEF FlagSound
  <2> QED  BY <2>1, <2>4, <2>5, <2>6 DEF Words
<1> QED  BY <1>1, <1>2

----------------------------------------------------------------------------
(* A core that sleeps over a word is woken.                                *)

LEMMA WakeKept ==
    ASSUME IInv, NEW c \in Cores,
           \/ Handler(c) \/ Thread(c)
           \/ VictimInit(c) \/ Masks(c) \/ Unmasks(c) \/ CallStart(c) \/ CallEnd(c) \/ TimeIsUp(c)
    PROVE  PopIsWoken'
<1>1. /\ Other(c) \in Cores /\ Other(c) # c /\ Cores = {c, Other(c)}
      /\ HandlerSound(c) /\ TypeOK /\ CallsSound
  BY OtherCore DEF HandlersSound, IInv
<1>2. \A d \in Cores : (place[d] = "wfe" \/ handler[d] = "wfe") /\ fifo[d] # <<>> => event[d]
  BY DEF IInv, PopIsWoken, Valid
<1>3. /\ event \in [Cores -> BOOLEAN] /\ DOMAIN place = Cores /\ DOMAIN handler = Cores
  BY DEF TypeOK, IInv
<1> DEFINE Woken(d) == (place[d] = "wfe" \/ handler[d] = "wfe") /\ fifo[d] # <<>> => event[d]
<1>4. SUFFICES Woken(c)' /\ Woken(Other(c))'
  BY <1>1, Zenon DEF PopIsWoken, Valid
<1> USE <1>1, <1>2, <1>3 DEF hardware, irq, local, lockout, ThreadGoes, HandlerGoes
<1>5. CASE HandlerEnters(c) \/ HandlerReturns(c) \/ HandlerSleeps(c) \/ HandlerWakes(c)
  BY <1>5 DEF HandlerEnters, HandlerReturns, HandlerSleeps, HandlerWakes, Wakes, Valid,
              HandlerSound, Handshaking
<1>6. CASE HandlerReads(c) \/ HandlerPops(c)
  <2>1. /\ fifo[c] # <<>> /\ fifo'[Other(c)] = fifo[Other(c)] /\ event' = event
        /\ handler[c] # "off"
    BY <1>6, TakesDoes DEF HandlerReads, HandlerPops
  <2> QED  BY <1>6, <2>1 DEF HandlerReads, HandlerPops, HandlerSound, Handshaking
<1>7. CASE HandlerEchoesStart(c) \/ HandlerEchoesEnd(c)
  <2>1. fifo'[c] = fifo[c] /\ event'[c] = event[c] /\ event'[Other(c)] = TRUE
    BY <1>7, SendsDoes DEF HandlerEchoesStart, HandlerEchoesEnd, Words
  <2> QED  BY <1>7, <2>1 DEF HandlerEchoesStart, HandlerEchoesEnd
<1>8. CASE \/ VictimInit(c) \/ Masks(c) \/ Unmasks(c) \/ CallStart(c) \/ CallEnd(c) \/ TimeIsUp(c)
           \/ EntersMutex(c) \/ GivesUpOnMutex(c) \/ HandshakeGoesOn(c)
           \/ HandshakePushTimesOut(c) \/ HandshakeRestores(c) \/ Finishes(c)
  <2>1. /\ UNCHANGED <<fifo, event, handler>> /\ (place'[c] = "wfe" => place[c] = "wfe")
        /\ place'[Other(c)] = place[Other(c)]
    BY <1>8 DEF VictimInit, Masks, Unmasks, CallStart, CallEnd, TimeIsUp, EntersMutex,
                GivesUpOnMutex, HandshakeGoesOn, HandshakePushTimesOut, HandshakeRestores, Finishes
  <2> QED  BY <2>1
<1>9. CASE HandshakeGivesUp(c) \/ HandshakeSleeps(c) \/ HandshakeWakes(c)
  BY <1>9 DEF HandshakeGivesUp, HandshakeSleeps, HandshakeWakes, Wakes, Valid
<1>10. CASE HandshakePushes(c)
  BY <1>10, Pushes DEF HandshakePushes
<1>11. CASE HandshakePops(c)
  <2>1. /\ fifo'[Other(c)] = fifo[Other(c)] /\ event' = event
    BY <1>11, TakesDoes DEF HandshakePops
  <2> QED  BY <1>11, <2>1 DEF HandshakePops
<1> QED  BY <1>5, <1>6, <1>7, <1>8, <1>9, <1>10, <1>11 DEF Handler, Thread

----------------------------------------------------------------------------
(* The core that asks stays the one that asks: steps that send and take no *)
(* word.                                                                   *)

LEMMA RequesterFramed ==
    ASSUME NEW r, NEW v, Requester(r, v),
           owner' = v => place'[v] = "panic", v \notin holds', victim \subseteq victim',
           fifo'[r] = fifo[r], fifo'[v] = fifo[v],
           handler'[r] = handler[r], handler'[v] = handler[v],
           Has(r)' <=> Has(r), Undisturbed(r)' => Undisturbed(r)
    PROVE  Requester(r, v)'
<1>1. Asks(r, v) => Asks(r, v)'
  BY DEF Asks, Quiet, LockedOut, Only, EndsIn
<1>2. Keeps(r, v) => Keeps(r, v)'
  BY DEF Keeps, Quiet, LockedOut, Only, EndsIn
<1>3. (Undisturbed(r) /\ Has(r))' =>
          (LockedOut(v) /\ Only("start", fifo[v]) /\ Quiet(r))'
  BY DEF Requester, Quiet, LockedOut, Only
<1>4. (Undisturbed(r) /\ ~Has(r))' =>
          (handler[v] \in {"off", "read"} /\ Only("end", fifo[v]) /\ Quiet(r))'
  BY DEF Requester, Quiet, Only
<1>5. fifo'[v] # <<>> => v \in victim'
  BY DEF Requester
<1> QED  BY <1>1, <1>2, <1>3, <1>4, <1>5 DEF Requester

(* The steps of v, which has not asked since: its handler's.               *)
LEMMA AnswererSteps ==
    ASSUME IInv, NEW r \in Cores, NEW v \in Cores, v = Other(r), Requester(r, v), Handler(v)
    PROVE  Requester(r, v)'
<1>1. /\ r # v /\ Other(v) = r /\ TypeOK /\ CallSound(v) /\ HandlerSound(v)
      /\ fifo[v] \in Seq(Words) /\ DOMAIN handler = Cores
  BY OtherCore DEF IInv, TypeOK, CallsSound, HandlersSound
<1>2. UNCHANGED <<irq, place, local, late, lockout>>
  BY DEF Handler, HandlerEnters, HandlerReads, HandlerReturns, HandlerEchoesStart, HandlerPops,
         HandlerSleeps, HandlerWakes, HandlerEchoesEnd, HandlerGoes
<1>3. /\ owner' = v => place'[v] = "panic"
      /\ v \notin holds' /\ victim' = victim
      /\ Has(r)' = Has(r) /\ Undisturbed(r)' = Undisturbed(r)
  BY <1>2 DEF Requester, Has, Undisturbed, irq, local, lockout
<1> USE <1>1 DEF HandlerGoes
<1>4. CASE HandlerEnters(v) \/ HandlerReturns(v)
  <2>1. /\ handler'[r] = handler[r] /\ fifo' = fifo
        /\ handler[v] \in {"off", "read"} /\ handler'[v] \in {"off", "read"}
    BY <1>4 DEF HandlerEnters, HandlerReturns, hardware
  <2>2. Asks(r, v) => Asks(r, v)'
    BY <2>1 DEF Asks, Quiet, LockedOut, Only, EndsIn
  <2>3. Keeps(r, v) => Keeps(r, v)'
    BY <2>1 DEF Keeps, Quiet, LockedOut, Only, EndsIn
  <2>4. ~(Undisturbed(r) /\ Has(r))
    BY <2>1 DEF Requester, LockedOut
  <2>5. Only("end", fifo[v])' <=> Only("end", fifo[v])
    BY <2>1 DEF Only
  <2> QED  BY <1>3, <2>1, <2>2, <2>3, <2>4, <2>5 DEF Requester, Quiet
<1>5. CASE HandlerSleeps(v) \/ HandlerWakes(v)
  <2>1. /\ handler'[r] = handler[r] /\ fifo' = fifo
        /\ handler[v] \in {"loop", "wfe"} /\ handler'[v] \in {"loop", "wfe"}
    BY <1>5 DEF HandlerSleeps, HandlerWakes, hardware, Wakes
  <2>2. Asks(r, v) => Asks(r, v)'
    BY <2>1 DEF Asks, Quiet, LockedOut, Only, EndsIn
  <2>3. Keeps(r, v) => Keeps(r, v)'
    BY <2>1 DEF Keeps, Quiet, LockedOut, Only, EndsIn
  <2>4. ~(Undisturbed(r) /\ ~Has(r))
    BY <2>1 DEF Requester
  <2>5. Only("start", fifo[v])' <=> Only("start", fifo[v])
    BY <2>1 DEF Only
  <2> QED  BY <1>3, <2>1, <2>2, <2>3, <2>4, <2>5 DEF Requester, Quiet, LockedOut
<1>6. CASE HandlerReads(v) \/ HandlerPops(v)
  <2>1. PICK w \in Words :
           /\ Takes(v, w)
           /\ \/ HandlerGoes(v, "read", IF w = "start" THEN "echo" ELSE "read")
              \/ HandlerGoes(v, "loop", IF w = "end" THEN "echo_end" ELSE "loop")
    BY <1>6 DEF HandlerReads, HandlerPops
  <2>2. /\ fifo[v] # <<>> /\ Head(fifo[v]) = w /\ fifo'[v] = Tail(fifo[v])
        /\ fifo'[r] = fifo[r]
    BY <2>1, TakesDoes
  <2>3. /\ \A u \in Words :
              /\ Only(u, fifo[v]) => w = u /\ Only(u, fifo'[v])
              /\ EndsIn(u, fifo[v]) => EndsIn(u, fifo'[v])
              /\ EndsIn(u, fifo[v]) /\ w = u => Only(u, fifo'[v])
    BY <2>2, Taken
  <2>4. /\ handler'[r] = handler[r]
        /\ \/ /\ handler[v] = "read"
              /\ handler'[v] = IF w = "start" THEN "echo" ELSE "read"
           \/ /\ handler[v] = "loop"
              /\ handler'[v] = IF w = "end" THEN "echo_end" ELSE "loop"
    BY <2>1
  <2>5. "start" \in Words /\ "end" \in Words /\ w \in {"start", "end"}
    BY DEF Words
  <2>6. Asks(r, v) => Asks(r, v)'
    BY <2>2, <2>3, <2>4, <2>5 DEF Asks, Quiet, LockedOut
  <2>7. Keeps(r, v) => Keeps(r, v)'
    BY <2>2, <2>3, <2>4, <2>5 DEF Keeps, Quiet, LockedOut
  <2>8. Undisturbed(r) /\ Has(r) =>
            (LockedOut(v) /\ Only("start", fifo[v]) /\ Quiet(r))'
    BY <2>2, <2>3, <2>4, <2>5 DEF Requester, Quiet, LockedOut
  <2>9. Undisturbed(r) /\ ~Has(r) =>
            (handler[v] \in {"off", "read"} /\ Only("end", fifo[v]) /\ Quiet(r))'
    BY <2>2, <2>3, <2>4, <2>5 DEF Requester, Quiet
  <2> QED  BY <1>3, <2>2, <2>6, <2>7, <2>8, <2>9 DEF Requester
<1>7. CASE HandlerEchoesStart(v) \/ HandlerEchoesEnd(v)
  <2>1. \/ /\ fifo'[v] = fifo[v] /\ fifo'[r] = Append(fifo[r], "start")
           /\ handler[v] = "echo" /\ handler'[v] = "loop"
        \/ /\ fifo'[v] = fifo[v] /\ fifo'[r] = Append(fifo[r], "end")
           /\ handler[v] = "echo_end" /\ handler'[v] = "read"
    BY <1>7, SendsDoes DEF HandlerEchoesStart, HandlerEchoesEnd, Words
  <2>2. PICK w \in Words : /\ fifo'[v] = fifo[v] /\ fifo'[r] = Append(fifo[r], w)
                           /\ \/ w = "start" /\ handler[v] = "echo" /\ handler'[v] = "loop"
                              \/ w = "end" /\ handler[v] = "echo_end" /\ handler'[v] = "read"
    BY <2>1, Zenon DEF Words
  <2>3. handler'[r] = handler[r]
    BY <1>7 DEF HandlerEchoesStart, HandlerEchoesEnd
  <2>4. \A u : Only(u, fifo[v])' <=> Only(u, fifo[v])
    BY <2>2 DEF Only
  <2>5. ~Undisturbed(r)
    BY <2>2 DEF Requester, LockedOut
  <2>6. fifo[r] = <<>> => fifo'[r] = <<w>>
    BY <2>2, OneWord
  <2>7. Asks(r, v) => Asks(r, v)'
    BY <2>2, <2>3, <2>4, <2>6 DEF Asks, Quiet, LockedOut
  <2>8. Keeps(r, v) => Keeps(r, v)'
    BY <2>2, <2>3, <2>4, <2>6 DEF Keeps, Quiet, LockedOut
  <2> QED  BY <1>3, <2>2, <2>5, <2>7, <2>8 DEF Requester
<1> QED  BY <1>4, <1>5, <1>6, <1>7 DEF Handler

(* The steps of r's handler, which sees the echo of a handshake that has   *)
(* given up.                                                               *)
LEMMA AskerHandlerSteps ==
    ASSUME IInv, NEW r \in Cores, NEW v \in Cores, v = Other(r), Requester(r, v), Handler(r)
    PROVE  Requester(r, v)'
<1>1. /\ r # v /\ TypeOK /\ CallSound(r) /\ HandlerSound(v)
      /\ fifo[r] \in Seq(Words) /\ fifo[v] \in Seq(Words) /\ DOMAIN handler = Cores
  BY OtherCore DEF IInv, TypeOK, CallsSound, HandlersSound
<1>2. UNCHANGED <<irq, place, local, late, lockout>>
  BY DEF Handler, HandlerEnters, HandlerReads, HandlerReturns, HandlerEchoesStart, HandlerPops,
         HandlerSleeps, HandlerWakes, HandlerEchoesEnd, HandlerGoes
<1>3. /\ owner' = v => place'[v] = "panic"
      /\ v \notin holds' /\ victim' = victim
      /\ Has(r)' = Has(r) /\ Undisturbed(r)' = Undisturbed(r)
  BY <1>2 DEF Requester, Has, Undisturbed, irq, local, lockout
<1>4. ~Quiet(r)
  BY DEF Handler, HandlerEnters, HandlerReads, HandlerReturns, HandlerEchoesStart, HandlerPops,
         HandlerSleeps, HandlerWakes, HandlerEchoesEnd, HandlerGoes, Quiet, Raised, Valid
<1>5. ~Undisturbed(r)
  BY <1>4 DEF Requester
<1>6. /\ Has(r) => /\ handler[v] \in {"off", "read"} /\ Only("end", fifo[v])
                   /\ fifo[r] \in {<<>>, <<"end">>} /\ handler[r] \in {"off", "read"}
      /\ ~Has(r) => /\ handler[v] \in {"loop", "wfe"} /\ Only("start", fifo[v])
                    /\ \/ fifo[r] = <<"start">> /\ handler[r] \in {"off", "read"}
                       \/ fifo[r] = <<>> /\ handler[r] \in {"echo", "loop", "wfe"}
  BY <1>4 DEF Requester, Asks, Keeps, LockedOut
<1>7. handler'[v] = handler[v]
  BY <1>1 DEF Handler, HandlerEnters, HandlerReads, HandlerReturns, HandlerEchoesStart, HandlerPops,
              HandlerSleeps, HandlerWakes, HandlerEchoesEnd, HandlerGoes
<1> DEFINE Goal ==
       /\ fifo'[v] # <<>> => v \in victim
       /\ Has(r) => /\ Only("end", fifo'[v])
                    /\ fifo'[r] \in {<<>>, <<"end">>} /\ handler'[r] \in {"off", "read"}
       /\ ~Has(r) => /\ Only("start", fifo'[v])
                     /\ \/ fifo'[r] = <<"start">> /\ handler'[r] \in {"off", "read"}
                        \/ fifo'[r] = <<>> /\ handler'[r] \in {"echo", "loop", "wfe"}
<1>8. SUFFICES Goal
  BY <1>3, <1>5, <1>6, <1>7 DEF Requester, Asks, Keeps, LockedOut, Only
<1> USE <1>1 DEF HandlerGoes
<1>9. fifo[v] # <<>> => v \in victim
  BY DEF Requester
<1>10. CASE HandlerEnters(r) \/ HandlerReturns(r) \/ HandlerSleeps(r) \/ HandlerWakes(r)
  <2>1. /\ fifo' = fifo
        /\ \/ /\ handler[r] \in {"off", "read"} /\ handler'[r] = "read" /\ fifo[r] # <<>>
           \/ /\ handler[r] = "read" /\ handler'[r] = "off" /\ fifo[r] = <<>>
           \/ /\ handler[r] \in {"loop", "wfe"} /\ handler'[r] \in {"loop", "wfe"}
    BY <1>10 DEF HandlerEnters, HandlerReturns, HandlerSleeps, HandlerWakes, hardware, Raised,
                 Valid, Wakes
  <2> QED  BY <1>6, <1>9, <2>1
<1>11. CASE HandlerReads(r) \/ HandlerPops(r)
  <2>1. PICK w \in Words :
           /\ Takes(r, w)
           /\ \/ HandlerGoes(r, "read", IF w = "start" THEN "echo" ELSE "read")
              \/ HandlerGoes(r, "loop", IF w = "end" THEN "echo_end" ELSE "loop")
    BY <1>11 DEF HandlerReads, HandlerPops
  <2>2. /\ fifo[r] # <<>> /\ Head(fifo[r]) = w /\ fifo'[r] = Tail(fifo[r])
        /\ fifo'[v] = fifo[v]
    BY <2>1, TakesDoes
  <2>3. \A u \in Words : fifo[r] = <<u>> => w = u /\ fifo'[r] = <<>>
    BY <2>2, OneWord
  <2>4. \/ handler[r] = "read" /\ handler'[r] = IF w = "start" THEN "echo" ELSE "read"
        \/ handler[r] = "loop"
    BY <2>1
  <2>5. "start" \in Words /\ "end" \in Words
    BY DEF Words
  <2> QED  BY <1>6, <1>9, <2>2, <2>3, <2>4, <2>5
<1>12. CASE HandlerEchoesStart(r)
  <2>1. fifo'[r] = fifo[r] /\ fifo'[v] = Append(fifo[v], "start")
    BY <1>12, SendsDoes DEF HandlerEchoesStart, Words
  <2>2. handler[r] = "echo" /\ handler'[r] = "loop"
    BY <1>12 DEF HandlerEchoesStart
  <2>3. Only("start", fifo[v]) => Only("start", fifo'[v])
    BY <2>1, Appended DEF Words
  <2>4. ~Has(r) => v \in victim
    BY <1>6 DEF HandlerSound
  <2> QED  BY <1>6, <2>1, <2>2, <2>3, <2>4
<1>13. CASE HandlerEchoesEnd(r)
  BY <1>6, <1>13 DEF HandlerEchoesEnd
<1> QED  BY <1>10, <1>11, <1>12, <1>13 DEF Handler

(* What v's thread does short of a handshake, and any core's clock.        *)
LEMMA AnswererCalls ==
    ASSUME IInv, NEW r \in Cores, NEW v \in Cores, v = Other(r), Requester(r, v),
           \/ VictimInit(v) \/ Masks(v) \/ Unmasks(v) \/ CallStart(v) \/ CallEnd(v)
           \/ TimeIsUp(v) \/ GivesUpOnMutex(v)
    PROVE  Requester(r, v)'
<1>1. /\ r # v /\ CallSound(v) /\ magic \in [Cores -> Words \cup {None}]
      /\ rc \in [Cores -> BOOLEAN] /\ DOMAIN place = Cores
  BY OtherCore DEF IInv, TypeOK, CallsSound
<1>2. /\ UNCHANGED <<hardware, handler, owner, holds, stray>> /\ victim \subseteq victim'
      /\ place'[r] = place[r] /\ rc'[r] = rc[r] /\ magic'[r] = magic[r]
      /\ place[v] = "panic" => place'[v] = "panic"
  BY <1>1 DEF VictimInit, Masks, Unmasks, CallStart, CallEnd, TimeIsUp, GivesUpOnMutex, Returns,
              ThreadGoes, irq, local, lockout
<1>3. /\ Has(r)' <=> Has(r)
      /\ Undisturbed(r)' <=> Undisturbed(r)
  BY <1>2 DEF Has, Undisturbed
<1>4. owner' = v => place'[v] = "panic"
  BY <1>2 DEF Requester
<1>5. v \notin holds'
  BY <1>2 DEF Requester
<1> QED  BY <1>2, <1>3, <1>4, <1>5, RequesterFramed DEF hardware

(* r's thread, outside the push, the pop and the return.                   *)
LEMMA AskerGoesOn ==
    ASSUME IInv, NEW r \in Cores, NEW v \in Cores, v = Other(r), Requester(r, v),
           \/ VictimInit(r) \/ Masks(r) \/ Unmasks(r) \/ CallStart(r) \/ CallEnd(r)
           \/ TimeIsUp(r) \/ EntersMutex(r) \/ GivesUpOnMutex(r) \/ HandshakeGoesOn(r)
           \/ HandshakeGivesUp(r) \/ HandshakePushTimesOut(r) \/ HandshakeSleeps(r)
           \/ HandshakeWakes(r) \/ HandshakeRestores(r)
    PROVE  Requester(r, v)'
<1>1. /\ r # v /\ CallSound(r) /\ magic \in [Cores -> Words \cup {None}]
      /\ rc \in [Cores -> BOOLEAN] /\ DOMAIN place = Cores
  BY OtherCore DEF IInv, TypeOK, CallsSound
<1>2. /\ UNCHANGED <<fifo, handler, holds>> /\ victim \subseteq victim'
      /\ stray \subseteq stray' /\ owner' \in {owner, r}
      /\ place'[v] = place[v] /\ rc'[r] = rc[r]
      /\ rc[r] => magic'[r] = magic[r]
  BY <1>1 DEF VictimInit, Masks, Unmasks, CallStart, CallEnd, TimeIsUp, EntersMutex,
              GivesUpOnMutex, HandshakeGoesOn, HandshakeGivesUp, HandshakePushTimesOut,
              HandshakeSleeps, HandshakeWakes, HandshakeRestores, Returns, Wakes, CallSound,
              ThreadGoes, hardware, irq, local, lockout
<1>3. Has(r)' <=> Has(r)
  BY <1>2 DEF Has
<1>4. place'[r] \in {"idle", "mutex", "check", "push"} =>
          place[r] \in {"idle", "mutex", "check", "push"}
  BY <1>1 DEF VictimInit, Masks, Unmasks, CallStart, CallEnd, TimeIsUp, EntersMutex,
              GivesUpOnMutex, HandshakeGoesOn, HandshakeGivesUp, HandshakePushTimesOut,
              HandshakeSleeps, HandshakeWakes, HandshakeRestores, ThreadGoes
<1>5. Undisturbed(r)' => Undisturbed(r)
  BY <1>2, <1>4 DEF Undisturbed
<1>6. owner' = v => place'[v] = "panic"
  BY <1>1, <1>2 DEF Requester
<1>7. v \notin holds'
  BY <1>2 DEF Requester
<1> QED  BY <1>2, <1>3, <1>5, <1>6, <1>7, RequesterFramed

LEMMA AskerPushes ==
    ASSUME IInv, NEW r \in Cores, NEW v \in Cores, v = Other(r), Requester(r, v),
           HandshakePushes(r)
    PROVE  Requester(r, v)'
<1>1. /\ r # v /\ TypeOK /\ CallsSound /\ CallSound(r) /\ fifo[v] \in Seq(Words)
      /\ DOMAIN place = Cores
  BY OtherCore DEF IInv, TypeOK, CallsSound
<1>2. /\ UNCHANGED <<handler, irq, local, lockout>>
      /\ place[r] = "push" /\ place' = [place EXCEPT ![r] = "check2"]
  BY DEF HandshakePushes, ThreadGoes
<1>3. /\ magic[r] \in Words /\ fifo'[r] = fifo[r] /\ fifo'[v] = Append(fifo[v], magic[r])
  BY <1>1, Pushes
<1>4. /\ Only(magic[r], fifo[v]) => Only(magic[r], fifo'[v])
      /\ EndsIn(magic[r], fifo[v]) => EndsIn(magic[r], fifo'[v])
  BY <1>1, <1>3, Appended
<1>5. ~rc[r] /\ (Has(r) <=> magic[r] = "end") /\ magic[r] \in {"start", "end"}
  BY <1>1, <1>2, <1>3 DEF CallSound, Has, Words
<1>6. /\ ~Undisturbed(r)' /\ Has(r)' = Has(r) /\ v \in victim' /\ v \notin holds'
      /\ owner' = v => place'[v] = "panic"
  BY <1>1, <1>2, <1>5 DEF CallSound, Undisturbed, Has, Requester, irq, local, lockout
<1>7. ~Has(r) => Asks(r, v)'
  BY <1>2, <1>3, <1>4, <1>5 DEF Requester, Asks, Quiet, LockedOut
<1>8. Has(r) => Keeps(r, v)'
  BY <1>2, <1>3, <1>4, <1>5 DEF Requester, Keeps, Quiet, LockedOut
<1> QED  BY <1>6, <1>7, <1>8 DEF Requester

(* The pop takes the echo of what r sent, and v is where that leaves it;   *)
(* no other word is ever there for it.                                     *)
LEMMA AskerPops ==
    ASSUME IInv, NEW r \in Cores, NEW v \in Cores, v = Other(r), Requester(r, v),
           HandshakePops(r)
    PROVE  Requester(r, v)'
<1>1. /\ r # v /\ TypeOK /\ CallSound(r) /\ fifo[r] \in Seq(Words)
      /\ DOMAIN place = Cores /\ rc \in [Cores -> BOOLEAN]
  BY OtherCore DEF IInv, TypeOK, CallsSound
<1>2. /\ UNCHANGED <<handler, irq, magic, lockout>> /\ handler[r] = "off"
      /\ place[r] = "pop" /\ place'[v] = place[v]
  BY <1>1 DEF HandshakePops, ThreadGoes
<1>3. PICK w \in Words :
         /\ Takes(r, w) /\ rc' = [rc EXCEPT ![r] = w = magic[r]]
  BY DEF HandshakePops
<1>4. /\ fifo[r] # <<>> /\ Head(fifo[r]) = w /\ fifo'[r] = Tail(fifo[r])
      /\ fifo'[v] = fifo[v]
  BY <1>1, <1>3, TakesDoes
<1>5. /\ ~rc[r] /\ (Has(r) <=> magic[r] = "end") /\ magic[r] \in {"start", "end"}
  <2>1. magic[r] \in Words
    BY <1>2, CallKnows DEF IInv
  <2> QED  BY <1>1, <1>2, <2>1 DEF CallSound, Has, Words
<1>6. \A u \in Words : fifo[r] = <<u>> => w = u /\ fifo'[r] = <<>>
  BY <1>4, OneWord
<1>7. /\ ~Quiet(r) /\ "start" \in Words /\ "end" \in Words
  BY <1>4 DEF Quiet, Words
<1>8. /\ Has(r) => /\ handler[v] \in {"off", "read"} /\ Only("end", fifo[v])
                   /\ w = magic[r] /\ fifo'[r] = <<>>
      /\ ~Has(r) => /\ handler[v] \in {"loop", "wfe"} /\ Only("start", fifo[v])
                    /\ w = magic[r] /\ fifo'[r] = <<>>
  BY <1>2, <1>4, <1>5, <1>6, <1>7 DEF Requester, Asks, Keeps, LockedOut
<1>9. rc'[r] /\ (Has(r)' <=> ~Has(r))
  BY <1>1, <1>2, <1>3, <1>5, <1>8 DEF Has
<1>10. Quiet(r)'
  BY <1>2, <1>8 DEF Quiet
<1>11. /\ ~Has(r) => (LockedOut(v) /\ Only("start", fifo[v]) /\ EndsIn("end", fifo[v]))'
       /\ Has(r) => (/\ handler[v] \in {"off", "read"} /\ Only("end", fifo[v])
                     /\ EndsIn("start", fifo[v]))'
  BY <1>2, <1>4, <1>8, OnlyEnds DEF LockedOut
<1>12. fifo'[v] # <<>> => v \in victim'
  BY <1>2, <1>4 DEF Requester, irq
<1>13. v \notin holds' /\ (owner' = v => place'[v] = "panic")
  BY <1>2 DEF Requester, lockout
<1> QED  BY <1>9, <1>10, <1>11, <1>12, <1>13 DEF Requester, Asks, Keeps

LEMMA AskerFinishes ==
    ASSUME IInv, NEW r \in Cores, NEW v \in Cores, v = Other(r), Requester(r, v), Finishes(r)
    PROVE  Requester(r, v)'
<1>1. /\ r # v /\ CallSound(r) /\ magic[r] \in Words
      /\ rc \in [Cores -> BOOLEAN] /\ DOMAIN place = Cores
  BY OtherCore, CallKnows DEF IInv, TypeOK, CallsSound, Finishes, ThreadGoes
<1>2. /\ UNCHANGED <<hardware, handler, irq>> /\ owner' = None
      /\ place[r] = "finish" /\ rc'[r] = FALSE
  BY <1>1 DEF Finishes, ThreadGoes, Returns
<1>3. /\ r \in holds' <=> Has(r)
      /\ v \in holds' <=> v \in holds
  <2>1. CASE ~rc[r]
    BY <1>1, <2>1 DEF Finishes, Has
  <2>2. CASE rc[r] /\ magic[r] = "start"
    BY <1>1, <2>2 DEF Finishes, Has
  <2>3. CASE rc[r] /\ magic[r] = "end"
    BY <1>1, <2>3 DEF Finishes, Has
  <2> QED  BY <1>1, <2>1, <2>2, <2>3 DEF Words
<1>4. Has(r)' <=> Has(r)
  BY <1>2, <1>3 DEF Has
<1>5. Undisturbed(r)' => Undisturbed(r)
  BY <1>1, <1>2 DEF Finishes, Undisturbed, CallSound
<1>6. v \notin holds' /\ owner' # v
  BY <1>2, <1>3, MulticoreAssumption DEF Requester
<1> QED  BY <1>2, <1>4, <1>5, <1>6, RequesterFramed DEF hardware, irq

(* A core that asks in its turn, when the other one has finished and has   *)
(* no lockout, finds nothing left of what was asked before.                *)
LEMMA TurnChanges ==
    ASSUME IInv, NEW r \in Cores, NEW v \in Cores, v = Other(r), Requester(r, v),
           EntersMutex(v), place'[v] # "panic"
    PROVE  Requester(v, r)'
<1>1. /\ r # v /\ CallSound(v) /\ CallSound(r) /\ HandlerSound(v) /\ FlagSound
      /\ DOMAIN place = Cores /\ Other(v) = r /\ holds \subseteq Cores
      /\ place[r] \in {"idle", "mutex", "panic", "check", "push", "check2", "pop", "wfe",
                       "woke", "restore", "finish"}
      /\ enabled \in [Cores -> BOOLEAN] /\ masked \in [Cores -> BOOLEAN]
      /\ lockout_in_progress \in BOOLEAN /\ r # None
  BY OtherCore DEF IInv, TypeOK, CallsSound, HandlersSound
<1>2. /\ UNCHANGED <<hardware, handler, masked, victim, magic, rc, holds, stray>>
      /\ owner = None /\ owner' = v /\ handler[v] = "off" /\ ~Raised(v)
      /\ place[v] = "mutex" /\ lockout_in_progress # (magic[v] = "start")
      /\ magic[v] \in Words
  BY <1>1, CallKnows DEF EntersMutex, ThreadGoes, IInv
<1>3. ~lockout_in_progress /\ holds = {}
  BY <1>1, <1>2 DEF Requester, CallSound, FlagSound, Words
<1>4. ~rc[r] /\ ~rc[v] /\ ~Has(r) /\ ~Has(v)'
  BY <1>1, <1>2, <1>3 DEF CallSound, Has, Handshaking
<1>5. fifo[v] = <<>>
  <2>1. (enabled[v] /\ ~masked[v]) \/ v \notin victim
    BY <1>1, <1>2 DEF CallSound, HandlerSound, Handshaking
  <2> QED  BY <1>2, <2>1 DEF Requester, Raised, Valid
<1>6. fifo[r] = <<>> /\ handler[r] = "off"
  BY <1>2, <1>4 DEF Requester, Asks, Quiet, LockedOut
<1>7. fifo'[v] = <<>> /\ handler'[v] = "off" /\ fifo'[r] = <<>> /\ handler'[r] = "off"
  BY <1>2, <1>5, <1>6 DEF hardware
<1>8. Asks(v, r)' /\ Quiet(v)' /\ Only("end", fifo[r])'
  BY <1>7, NoWords DEF Asks, Quiet
<1> QED  BY <1>1, <1>2, <1>3, <1>4, <1>7, <1>8 DEF Requester

(* Otherwise r stays the core that asks.                                   *)
LEMMA RequesterKept ==
    ASSUME IInv, NEW c \in Cores,
           \/ Handler(c) \/ Thread(c)
           \/ VictimInit(c) \/ Masks(c) \/ Unmasks(c) \/ CallStart(c) \/ CallEnd(c) \/ TimeIsUp(c)
    PROVE  \E r \in Cores : Requester(r, Other(r))'
<1>1. PICK r \in Cores : Requester(r, Other(r))
  BY DEF IInv
<1> DEFINE v == Other(r)
<1>2. /\ v \in Cores /\ v # r /\ Other(v) = r /\ Cores = {r, v}
  BY OtherCore
<1>3. SUFFICES Requester(r, v)' \/ Requester(v, r)'
  BY <1>2
<1>4. CASE c = r
  BY <1>1, <1>2, <1>4, AskerHandlerSteps, AskerGoesOn, AskerPushes, AskerPops, AskerFinishes
     DEF Thread
<1>5. CASE c = v
  <2>1. CASE Handler(c)
    BY <1>1, <1>2, <1>5, <2>1, AnswererSteps
  <2>2. CASE \/ VictimInit(c) \/ Masks(c) \/ Unmasks(c) \/ CallStart(c) \/ CallEnd(c)
             \/ TimeIsUp(c) \/ GivesUpOnMutex(c)
    BY <1>1, <1>2, <1>5, <2>2, AnswererCalls
  <2>3. CASE EntersMutex(c)
    <3>1. CASE place'[v] # "panic"
      BY <1>1, <1>2, <1>5, <2>3, <3>1, TurnChanges
    <3>2. CASE place'[v] = "panic"
      <4>1. /\ UNCHANGED <<hardware, handler, victim, magic, rc, holds, stray>>
            /\ place'[r] = place[r]
        BY <1>2, <1>5, <2>3 DEF EntersMutex, ThreadGoes, IInv, TypeOK
      <4>2. (Has(r)' <=> Has(r)) /\ (Undisturbed(r)' <=> Undisturbed(r)) /\ v \notin holds'
        BY <1>1, <4>1 DEF Has, Undisturbed, Requester
      <4> HIDE DEF v
      <4> QED  BY <1>1, <3>2, <4>1, <4>2, RequesterFramed DEF hardware, v
    <3> QED  BY <3>1, <3>2
  <2>4. CASE \/ HandshakeGoesOn(c) \/ HandshakeGivesUp(c) \/ HandshakePushes(c)
             \/ HandshakePushTimesOut(c) \/ HandshakePops(c) \/ HandshakeSleeps(c)
             \/ HandshakeWakes(c) \/ HandshakeRestores(c) \/ Finishes(c)
    <3>1. place[c] \in Handshaking \cup {"finish"}
      BY <2>4 DEF HandshakeGoesOn, HandshakeGivesUp, HandshakePushes, HandshakePushTimesOut,
                  HandshakePops, HandshakeSleeps, HandshakeWakes, HandshakeRestores, Finishes,
                  ThreadGoes, Handshaking
    <3>2. CallSound(c)
      BY DEF IInv, CallsSound
    <3> QED  BY <1>1, <1>5, <3>1, <3>2 DEF CallSound, Requester, Handshaking
  <2> QED  BY <2>1, <2>2, <2>3, <2>4 DEF Thread
<1> QED  BY <1>2, <1>4, <1>5

----------------------------------------------------------------------------
(* The invariant, and what follows from it.                                *)

LEMMA Initially == ASSUME Init PROVE IInv
<1> USE DEF Init
<1>1. /\ \A c \in Cores : Other(c) \in Cores /\ c # None
      /\ Cores # {} /\ Depth \in Nat
  BY OtherCore, MulticoreAssumption
<1>2. TypeOK
  <2>1. <<>> \in Seq(Words) /\ Len(<<>>) = 0
    OBVIOUS
  <2>2. fifo \in [Cores -> Seq(Words)] /\ \A c \in Cores : Len(fifo[c]) <= Depth
    <3>1. \A c \in Cores : fifo[c] = <<>>
      OBVIOUS
    <3> QED  BY <1>1, <2>1, <3>1
  <2>3. timeouts \in [Words -> Nat]
    OBVIOUS
  <2>4. /\ event \in [Cores -> BOOLEAN] /\ enabled \in [Cores -> BOOLEAN]
        /\ masked \in [Cores -> BOOLEAN] /\ magic \in [Cores -> Words \cup {None}]
        /\ timed \in [Cores -> BOOLEAN] /\ late \in [Cores -> BOOLEAN]
        /\ was_enabled \in [Cores -> BOOLEAN] /\ rc \in [Cores -> BOOLEAN]
    OBVIOUS
  <2> QED  BY <2>2, <2>3, <2>4 DEF TypeOK
<1>3. CallsSound
  BY <1>1 DEF CallsSound, CallSound, Handshaking, None
<1>4. HandlersSound
  BY DEF HandlersSound, HandlerSound, Handshaking
<1>5. FlagSound /\ PopIsWoken
  BY DEF FlagSound, PopIsWoken
<1>6. \A r \in Cores : Requester(r, Other(r))
  BY <1>1, NoWords DEF Requester, Has, Asks, Quiet, Undisturbed
<1> QED  BY <1>1, <1>2, <1>3, <1>4, <1>5, <1>6 DEF IInv

LEMMA Inductive == IInv /\ [Next]_vars => IInv'
<1> SUFFICES ASSUME IInv, [Next]_vars PROVE IInv'
  OBVIOUS
<1>1. CASE Next
  <2>1. PICK c \in Cores :
           \/ Handler(c) \/ Thread(c)
           \/ VictimInit(c) \/ Masks(c) \/ Unmasks(c) \/ CallStart(c) \/ CallEnd(c) \/ TimeIsUp(c)
    BY <1>1 DEF Next
  <2>2. TypeOK'
    BY <2>1, HandlerKeepsTypes, ThreadKeepsTypes, CallersKeepTypes DEF IInv
  <2>3. CallsSound'
    BY <2>1, HandlerKeepsCalls, ThreadKeepsCalls, CallersKeepCalls DEF IInv
  <2> QED  BY <2>1, <2>2, <2>3, HandlersKept, FlagKept, WakeKept, RequesterKept DEF IInv
<1>2. CASE UNCHANGED vars
  <2> USE <1>2 DEF vars, hardware, irq, local, lockout
  <2>1. TypeOK' /\ FlagSound' /\ PopIsWoken'
    BY DEF IInv, TypeOK, FlagSound, PopIsWoken, Valid
  <2>2. CallsSound' /\ HandlersSound'
    BY DEF IInv, CallsSound, CallSound, HandlersSound, HandlerSound
  <2>3. PICK r \in Cores : Requester(r, Other(r))
    BY DEF IInv
  <2>4. Requester(r, Other(r))'
    <3> DEFINE v == Other(r)
    <3>1. /\ owner' = v => place'[v] = "panic"
          /\ v \notin holds' /\ victim' = victim
          /\ Has(r)' <=> Has(r)
          /\ Undisturbed(r)' <=> Undisturbed(r)
      BY <2>3 DEF Has, Undisturbed, Requester
    <3> QED  BY <2>3, <3>1, RequesterFramed
  <2> QED  BY <2>1, <2>2, <2>4 DEF IInv
<1> QED  BY <1>1, <1>2

(* The types, what a call and a handler know, the flag, the wake-ups, and  *)
(* where the words are, after any number of handshakes that timed out.     *)
THEOREM InvariantHolds == Spec => []IInv
BY Initially, Inductive, PTL DEF Spec

(* For FIFOs of any depth and after any number of timeouts, a core whose   *)
(* multicore_lockout_start_ returned true finds the other one in the loop  *)
(* of its handler until it ends the lockout, or an end of it timed out.    *)
THEOREM StartedStaysLocked == Spec => []StartedIsLocked
<1>1. ASSUME IInv PROVE StartedIsLocked
  <2>1. SUFFICES ASSUME NEW c \in Cores, c \in holds, place[c] = "idle", c \notin stray
                 PROVE  LockedOut(Other(c))
    BY <1>1, Zenon DEF StartedIsLocked, Holding, IInv
  <2>2. PICK r \in Cores : Requester(r, Other(r))
    BY <1>1 DEF IInv
  <2>3. r = c
    BY <2>1, <2>2, OtherCore DEF Requester
  <2>4. ~rc[c]
    BY <1>1, <2>1 DEF IInv, CallsSound, CallSound
  <2> QED  BY <2>1, <2>2, <2>3, <2>4 DEF Requester, Has, Undisturbed
<1> QED  BY <1>1, InvariantHolds, PTL

(* While no handshake has timed out without being made good, nobody is     *)
(* locked out but for a lockout that is held, asked for or being ended;    *)
(* the flag says whether one is held, and no assertion about it fails.     *)
THEOREM NobodyLeftLockedOut == Spec => []LockoutsAccounted
<1>1. ASSUME IInv, stray = {} PROVE LockoutsAccounted
  <2>1. /\ \A c \in Cores : CallSound(c) /\ HandlerSound(c)
        /\ FlagSound /\ \A c \in Cores : place[c] # "panic"
    BY <1>1 DEF IInv, CallsSound, HandlersSound, CallSound
  <2>2. PICK r \in Cores : Requester(r, Other(r))
    BY <1>1 DEF IInv
  <2>3. Undisturbed(r) \/ (owner = r /\ place[r] # "idle" /\ ~rc[r])
    <3>1. place[r] \in {"idle", "mutex", "panic", "check", "push", "check2", "pop", "wfe",
                        "woke", "restore", "finish"}
      BY <1>1 DEF IInv, TypeOK
    <3> QED  BY <1>1, <2>1, <3>1 DEF Undisturbed, CallSound, Handshaking
  <2>4. rc[r] => owner = r /\ place[r] # "idle"
    BY <2>1 DEF CallSound, Handshaking
  <2>5. LockedOut(Other(r)) => r \in holds \/ (place[r] # "idle" /\ owner = r)
    BY <2>2, <2>3, <2>4 DEF Requester, Has, LockedOut
  <2>6. ~LockedOut(r)
    <3>1. CASE Undisturbed(r)
      BY <2>2, <3>1 DEF Requester, Quiet, LockedOut
    <3>2. CASE ~Undisturbed(r)
      <4>1. owner = r /\ ~rc[r] /\ place[r] # "panic"
        BY <2>1, <2>3, <3>2
      <4>2. place[r] \in Handshaking
        BY <1>1, <2>1, <4>1 DEF CallSound
      <4> QED  BY <2>1, <4>2 DEF HandlerSound, LockedOut
    <3> QED  BY <3>1, <3>2
  <2>7. \A c \in Cores : c = r \/ (c = Other(r) /\ Other(c) = r)
    BY OtherCore
  <2> QED  BY <2>1, <2>5, <2>6, <2>7 DEF LockoutsAccounted, FlagSound
<1>2. IInv => LockoutsAccounted
  BY <1>1 DEF LockoutsAccounted
<1> QED  BY <1>2, InvariantHolds, PTL

(* A core that sleeps over a FIFO that has a word finds its event register *)
(* set.                                                                    *)
THEOREM SleeperIsWoken == Spec => []PopIsWoken
BY InvariantHolds, PTL DEF IInv
=============================================================================
