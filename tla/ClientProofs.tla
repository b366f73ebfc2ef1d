---------------------------- MODULE ClientProofs ----------------------------
(***************************************************************************)
(* For any number of threads, objects and buffers: write_flag is exact, a  *)
(* registered buffer is in one place, and between two works the table of   *)
(* the client is what the server has granted.  In the second half: a read  *)
(* returns what was written, and type correctness.                         *)
(*                                                                         *)
(* The first three rest on what may be under way.  Flight, the             *)
(* completions not handled and the requests not executed, is a queue: to   *)
(* execute a request leaves its place alone.  The work thread waits for    *)
(* everything it posts but small writes; so what it waits for is the last  *)
(* of Flight, and when the epoll thread comes to it, nothing else is under *)
(* way.                                                                    *)
(***************************************************************************)
EXTENDS Client, SequenceTheorems, TLAPS

Completions ==
  [op : {"read", "write"}, obj : Objects, buf : Buffers \cup Apps, dram : BOOLEAN]
    \cup [op : {"granted"}, obj : Objects] \cup [op : {"refused", "freed"}]
Messages == Requests \cup Completions

MallocJob == [kind : {"malloc"}, app : Apps]
FreeJob == [kind : {"free"}, app : Apps, obj : Objects]
ReadJob == [kind : {"read"}, app : Apps, obj : Objects]
WriteJob == [kind : {"write"}, app : Apps, obj : Objects, val : Values]
Works ==
  {Idle} \cup [at : {"start"}, job : Jobs \cup {Poll}]
    \cup [at : {"malloc"}, job : MallocJob]
    \cup [at : {"free"}, job : FreeJob]
    \cup [at : {"read"}, job : ReadJob, buf : Buffers \cup Apps]
    \cup [at : {"write"}, job : WriteJob]
    \cup [at : {"poll"}, job : {Poll}]

\* The types of what the invariant is about.
Types ==
  /\ workList \in Seq(Jobs \cup {Poll})
  /\ work \in Works
  /\ info \in [length : {0, 1}, addr : Objects \cup {Null, Wild}]
  /\ taskDone \in BOOLEAN /\ refusing \in BOOLEAN /\ broken \in BOOLEAN
  /\ table \subseteq Objects \cup {Wild} /\ sendMrs \subseteq Buffers
  /\ qp \in Seq(Requests) /\ cq \in Seq(Completions)

Positions == 1 .. Len(Flight)

\* The work thread spins until r is over.
Awaited(r) == r.op # "write" \/ r.buf \in Apps
AwaitedBy(r) ==
  /\ r.op \in {"malloc", "granted", "refused"} =>
       work.at = "malloc" /\ info.length = 0
  /\ r.op \in {"free", "freed"} => work.at = "free" /\ info.addr # Null
  /\ r.op = "free" => r.obj = work.job.obj
  /\ r.op = "read" => work.at = "read" /\ ~ taskDone /\ work.buf = r.buf
  /\ r.op = "write" => work.at = "write" /\ ~ taskDone

\* What is waited for is the last that was posted.
AwaitedLast == \A i \in Positions :
  Awaited(Flight[i]) => i = Len(Flight) /\ AwaitedBy(Flight[i])

\* What the work thread took for a grant is not in the table for long.
WildTransient == Wild \in table => refusing

\* No flag is left from an earlier work, and no address of what was granted
\* is in an addr_info before the grant; when malloc is answered nothing else
\* is under way.
FlagsFresh ==
  /\ taskDone => work.at \in {"read", "write"}
  /\ work.at = "malloc" /\ info.length = 1 => Len(Flight) = 0
  /\ work.at = "malloc" /\ (info.length = 0 \/ refusing) => info.addr \in {Null, Wild}
  /\ WildTransient

\* One request for each buffer, the read that is being copied included.
OneRequestEach == \A i, j \in Positions :
  IsAccess(Flight[i]) /\ IsAccess(Flight[j]) /\ Flight[i].buf = Flight[j].buf
    => i = j
ListApart == \A i \in Positions :
  IsAccess(Flight[i]) => Flight[i].buf \notin sendMrs
ReadApart == work.at = "read" =>
  /\ work.buf \notin sendMrs
  /\ \A i \in Positions :
       IsAccess(Flight[i]) /\ Flight[i].buf = work.buf => Flight[i].op = "read"

\* write_flag, position by position
IsWrite(i, o) == Flight[i].op = "write" /\ Flight[i].obj = o
FlagsExact == ~ broken => \A o \in Objects :
  /\ o \in writeFlag <=> \E i \in Positions : IsWrite(i, o)
  /\ \A i, j \in Positions : IsWrite(i, o) /\ IsWrite(j, o) => i = j

\* What the table lacks is on its way to it, or on its way out.
TableFollows ==
  /\ work.at \notin {"malloc", "free"} => Known = granted
  /\ work.at = "malloc" =>
       /\ info.length = 1 =>
            IF refusing \/ info.addr = Null THEN Known = granted
            ELSE info.addr \in Objects /\ granted = Known \cup {info.addr}
       /\ \A i \in Positions :
            /\ Flight[i].op \in {"malloc", "refused"} => Known = granted
            /\ Flight[i].op = "granted" => granted = Known \cup {Flight[i].obj}
  /\ work.at = "free" =>
       /\ work.job.obj \notin Known
       /\ info.addr = Null => Known = granted
       /\ \A i \in Positions :
            /\ Flight[i].op = "free" => granted = Known \cup {work.job.obj}
            /\ Flight[i].op = "freed" => Known = granted

FlightInv ==
  /\ Types /\ AwaitedLast /\ FlagsFresh
  /\ OneRequestEach /\ ListApart /\ ReadApart
  /\ FlagsExact /\ TableFollows
-----------------------------------------------------------------------------
(***************************************************************************)
(* What the steps do to Flight.                                            *)
(***************************************************************************)
LEMMA MessageKinds ==
  ASSUME NEW r \in Messages
  PROVE  /\ r.op \in {"malloc", "free", "read", "write", "granted", "refused", "freed"}
         /\ IsAccess(r) => r.buf \in Buffers \cup Apps /\ r.obj \in Objects
         /\ r.op = "granted" => r.obj \in Objects
         /\ r.op = "free" => r.obj \in Objects
BY DEF Messages, Requests, Completions, IsAccess

\* Completions come first, requests after them.
LEMMA FlightParts ==
  ASSUME qp \in Seq(Requests), cq \in Seq(Completions)
  PROVE  /\ Flight \in Seq(Messages)
         /\ Len(cq) \in Nat /\ Len(qp) \in Nat
         /\ Len(Flight) = Len(cq) + Len(qp)
         /\ \A i \in Positions :
              /\ Flight[i] \in Messages
              /\ Flight[i] = IF i <= Len(cq) THEN cq[i] ELSE qp[i - Len(cq)]
<1>1. qp \in Seq(Messages) /\ cq \in Seq(Messages)
  BY SeqMonotonic DEF Messages
<1>2. /\ Flight \in Seq(Messages)
      /\ Len(Flight) = Len(cq) + Len(qp)
      /\ \A i \in 1 .. Len(cq) + Len(qp) :
           Flight[i] = IF i <= Len(cq) THEN cq[i] ELSE qp[i - Len(cq)]
  BY <1>1, ConcatProperties DEF Flight
<1>3. Len(cq) \in Nat /\ Len(qp) \in Nat
  BY <1>1, LenProperties
<1>4. ASSUME NEW i \in Positions PROVE Flight[i] \in Messages
  BY <1>2, ElementOfSeq DEF Positions
<1> QED BY <1>2, <1>3, <1>4 DEF Positions

LEMMA FlightPartsPrimed ==
  ASSUME qp' \in Seq(Requests), cq' \in Seq(Completions)
  PROVE  /\ Flight' \in Seq(Messages)
         /\ Len(cq') \in Nat /\ Len(qp') \in Nat
         /\ Len(Flight') = Len(cq') + Len(qp')
         /\ \A i \in Positions' :
              /\ Flight'[i] \in Messages
              /\ Flight'[i] = IF i <= Len(cq') THEN cq'[i] ELSE qp'[i - Len(cq')]
<1>1. qp' \in Seq(Messages) /\ cq' \in Seq(Messages)
  BY SeqMonotonic DEF Messages
<1>2. /\ Flight' \in Seq(Messages)
      /\ Len(Flight') = Len(cq') + Len(qp')
      /\ \A i \in 1 .. Len(cq') + Len(qp') :
           Flight'[i] = IF i <= Len(cq') THEN cq'[i] ELSE qp'[i - Len(cq')]
  BY <1>1, ConcatProperties DEF Flight
<1>3. Len(cq') \in Nat /\ Len(qp') \in Nat
  BY <1>1, LenProperties
<1>4. ASSUME NEW i \in Positions' PROVE Flight'[i] \in Messages
  BY <1>2, ElementOfSeq DEF Positions
<1> QED BY <1>2, <1>3, <1>4 DEF Positions

\* A request is appended, unless the queue pair is broken.
LEMMA FlightPost ==
  ASSUME qp \in Seq(Requests), cq \in Seq(Completions), UNCHANGED cq,
         NEW r \in Requests, Post(r)
  PROVE  /\ qp' \in Seq(Requests)
         /\ broken => Flight' = Flight
         /\ ~ broken =>
              /\ Len(Flight') = Len(Flight) + 1
              /\ \A i \in Positions : Flight'[i] = Flight[i]
              /\ Flight'[Len(Flight) + 1] = r
<1>1. CASE broken
  BY <1>1 DEF Post, Flight
<1>2. CASE ~ broken
  <2>1. qp' = Append(qp, r)
    BY <1>2 DEF Post
  <2>2. /\ qp' \in Seq(Requests)
        /\ Len(qp') = Len(qp) + 1
        /\ \A i \in 1 .. Len(qp) : qp'[i] = qp[i]
        /\ qp'[Len(qp) + 1] = r
    BY <2>1, AppendProperties
  <2>3. cq' \in Seq(Completions) /\ cq' = cq
    OBVIOUS
  <2>4. /\ Len(cq) \in Nat /\ Len(qp) \in Nat
        /\ Len(Flight) = Len(cq) + Len(qp)
        /\ Len(Flight') = Len(cq') + Len(qp')
    BY <2>2, <2>3, FlightParts, FlightPartsPrimed
  <2>5. Len(Flight') = Len(Flight) + 1
    BY <2>2, <2>3, <2>4
  <2>6. ASSUME NEW i \in Positions PROVE Flight'[i] = Flight[i]
    <3>1. i \in Positions'
      BY <2>4, <2>5 DEF Positions
    <3>2. Flight[i] = IF i <= Len(cq) THEN cq[i] ELSE qp[i - Len(cq)]
      BY FlightParts
    <3>3. Flight'[i] = IF i <= Len(cq) THEN cq[i] ELSE qp'[i - Len(cq)]
      BY <2>2, <2>3, <3>1, FlightPartsPrimed
    <3>4. i > Len(cq) => i - Len(cq) \in 1 .. Len(qp)
      BY <2>4 DEF Positions
    <3> QED BY <2>2, <2>4, <3>2, <3>3, <3>4 DEF Positions
  <2>7. Flight'[Len(Flight) + 1] = r
    BY <2>2, <2>3, <2>4, <2>5, FlightPartsPrimed DEF Positions
  <2> QED BY <1>2, <2>2, <2>5, <2>6, <2>7
<1> QED BY <1>1, <1>2

\* What is executed keeps its place.
LEMMA FlightComplete ==
  ASSUME qp \in Seq(Requests), cq \in Seq(Completions), qp # <<>>,
         NEW c \in Completions, Completes(c)
  PROVE  /\ qp' \in Seq(Requests) /\ cq' \in Seq(Completions)
         /\ Len(Flight') = Len(Flight)
         /\ \E k \in Positions :
              /\ Flight[k] = Head(qp) /\ Flight'[k] = c
              /\ \A i \in Positions : i # k => Flight'[i] = Flight[i]
<1>1. /\ qp' \in Seq(Requests)
      /\ Len(qp') = Len(qp) - 1
      /\ \A i \in 1 .. Len(qp') : qp'[i] = qp[i + 1]
  BY HeadTailProperties DEF Completes
<1>2. /\ cq' \in Seq(Completions)
      /\ Len(cq') = Len(cq) + 1
      /\ \A i \in 1 .. Len(cq) : cq'[i] = cq[i]
      /\ cq'[Len(cq) + 1] = c
  BY AppendProperties DEF Completes
<1>3. Len(qp) > 0 /\ Head(qp) = qp[1]
  BY EmptySeq, LenProperties
<1>4. Len(Flight') = Len(Flight)
  BY <1>1, <1>2, FlightParts, FlightPartsPrimed
<1> DEFINE k == Len(cq) + 1
<1>5. k \in Positions
  BY <1>3, FlightParts DEF Positions
<1>6. Flight[k] = Head(qp)
  BY <1>3, <1>5, FlightParts DEF Positions
<1>7. Flight'[k] = c
  BY <1>1, <1>2, <1>4, <1>5, FlightParts, FlightPartsPrimed DEF Positions
<1>8. ASSUME NEW i \in Positions, i # k PROVE Flight'[i] = Flight[i]
  <2>1. i \in Positions'
    BY <1>4 DEF Positions
  <2>2. CASE i <= Len(cq)
    BY <1>1, <1>2, <2>1, <2>2, FlightParts, FlightPartsPrimed DEF Positions
  <2>3. CASE i > k
    <3>1. Flight[i] = qp[i - Len(cq)]
      BY <2>3, FlightParts DEF Positions
    <3>2. Flight'[i] = qp'[i - Len(cq')]
      BY <1>1, <1>2, <2>1, <2>3, FlightParts, FlightPartsPrimed DEF Positions
    <3>3. i - Len(cq') \in 1 .. Len(qp') /\ i - Len(cq) = (i - Len(cq')) + 1
      BY <1>1, <1>2, <2>3, FlightParts DEF Positions
    <3> QED BY <1>1, <3>1, <3>2, <3>3
  <2> QED BY <1>8, <2>2, <2>3, FlightParts DEF Positions
<1> QED BY <1>1, <1>2, <1>4, <1>5, <1>6, <1>7, <1>8

\* What is handled is the oldest.
LEMMA FlightHandle ==
  ASSUME qp \in Seq(Requests), cq \in Seq(Completions), UNCHANGED qp,
         cq # <<>>, cq' = Tail(cq)
  PROVE  /\ cq' \in Seq(Completions)
         /\ 1 \in Positions /\ Flight[1] = Head(cq)
         /\ Len(Flight) \in Nat /\ Len(Flight') = Len(Flight) - 1
         /\ \A i \in Positions' : i + 1 \in Positions /\ Flight'[i] = Flight[i + 1]
<1>1. /\ cq' \in Seq(Completions)
      /\ Len(cq') = Len(cq) - 1
      /\ \A i \in 1 .. Len(cq') : cq'[i] = cq[i + 1]
  BY HeadTailProperties
<1>2. Len(cq) > 0 /\ Head(cq) = cq[1]
  BY EmptySeq, LenProperties
<1>3. qp' \in Seq(Requests) /\ qp' = qp
  OBVIOUS
<1>4. Len(Flight') = Len(Flight) - 1
  BY <1>1, <1>3, FlightParts, FlightPartsPrimed
<1>5. 1 \in Positions /\ Flight[1] = Head(cq) /\ Len(Flight) \in Nat
  BY <1>2, FlightParts DEF Positions
<1>6. ASSUME NEW i \in Positions'
      PROVE  i + 1 \in Positions /\ Flight'[i] = Flight[i + 1]
  <2>1. i + 1 \in Positions
    BY <1>4, FlightParts DEF Positions
  <2>2. CASE i <= Len(cq')
    BY <1>1, <1>3, <2>1, <2>2, FlightParts, FlightPartsPrimed DEF Positions
  <2>3. CASE i > Len(cq')
    BY <1>1, <1>3, <2>1, <2>3, FlightParts, FlightPartsPrimed DEF Positions
  <2> QED BY <2>1, <2>2, <2>3, <1>1, FlightPartsPrimed DEF Positions
<1> QED BY <1>1, <1>4, <1>5, <1>6
-----------------------------------------------------------------------------
(***************************************************************************)
(* The works.                                                              *)
(***************************************************************************)
LEMMA WorkKinds ==
  ASSUME work \in Works
  PROVE  /\ work.at \in {"idle", "start", "malloc", "free", "read", "write", "poll"}
         /\ work.at = "start" =>
              /\ work = [at |-> "start", job |-> work.job]
              /\ work.job \in Jobs \cup {Poll}
         /\ work.at = "malloc" => work.job \in MallocJob
         /\ work.at = "free" => work.job \in FreeJob
         /\ work.at = "read" => work.job \in ReadJob /\ work.buf \in Buffers \cup Apps
         /\ work.at = "write" => work.job \in WriteJob
BY DEF Works, Idle

LEMMA JobKinds ==
  ASSUME NEW job \in Jobs \cup {Poll}
  PROVE  /\ job.kind = "malloc" => job \in MallocJob
         /\ job.kind = "free" => job \in FreeJob
         /\ job.kind = "read" => job \in ReadJob
         /\ job.kind = "write" => job \in WriteJob
         /\ job.kind = "poll" => job = Poll
BY DEF Jobs, Poll, MallocJob, FreeJob, ReadJob, WriteJob

\* Between two waits only small writes are under way.
SmallWrites == \A i \in Positions : ~ Awaited(Flight[i])

LEMMA NothingAwaited ==
  ASSUME FlightInv, work.at \in {"idle", "start", "poll"}
  PROVE  SmallWrites /\ ~ taskDone /\ WildTransient /\ Known = granted
<1>1. ASSUME NEW i \in Positions PROVE ~ Awaited(Flight[i])
  <2>1. Flight[i].op \in {"malloc", "free", "read", "write", "granted", "refused", "freed"}
    BY FlightParts, MessageKinds DEF FlightInv, Types
  <2> QED BY <2>1 DEF FlightInv, AwaitedLast, AwaitedBy
<1> QED BY <1>1 DEF SmallWrites, FlightInv, FlagsFresh, TableFollows

\* A step that ends a wait, or begins a work.
LEMMA Rests ==
  ASSUME FlightInv, SmallWrites, Types', UNCHANGED <<broken, Flight>>,
         work'.at \in {"idle", "start", "poll"}, ~ taskDone', WildTransient',
         Known' = granted', FlagsExact', ListApart'
  PROVE  FlightInv'
<1>1. Positions' = Positions
  BY DEF Positions
<1>2. AwaitedLast'
  BY <1>1 DEF AwaitedLast, SmallWrites, Awaited
<1>3. OneRequestEach'
  BY <1>1 DEF FlightInv, OneRequestEach
<1>4. FlagsFresh' /\ ReadApart' /\ TableFollows'
  BY DEF FlagsFresh, ReadApart, TableFollows
<1> QED BY <1>2, <1>3, <1>4 DEF FlightInv

\* A step that does not touch what the invariant is about.
LEMMA Kept ==
  ASSUME FlightInv, Types',
         UNCHANGED <<work, info, taskDone, table, writeFlag, refusing,
                     sendMrs, broken, granted, Flight>>
  PROVE  FlightInv'
<1>1. Positions' = Positions
  BY DEF Positions
<1>2. AwaitedLast'
  BY <1>1 DEF FlightInv, AwaitedLast, AwaitedBy, Awaited
<1>3. FlagsFresh'
  BY DEF FlightInv, FlagsFresh, WildTransient
<1>4. OneRequestEach' /\ ListApart'
  BY <1>1 DEF FlightInv, OneRequestEach, ListApart, IsAccess
<1>5. ReadApart'
  BY <1>1 DEF FlightInv, ReadApart, IsAccess
<1>6. FlagsExact'
  BY <1>1 DEF FlightInv, FlagsExact, IsWrite
<1>7. TableFollows'
  BY <1>1 DEF FlightInv, TableFollows, Known
<1> QED BY <1>2, <1>3, <1>4, <1>5, <1>6, <1>7 DEF FlightInv

LEMMA FlagsKept ==
  ASSUME FlightInv, UNCHANGED <<broken, Flight, writeFlag>>
  PROVE  FlagsExact'
BY DEF FlightInv, FlagsExact, IsWrite, Positions

LEMMA ListKept ==
  ASSUME FlightInv, UNCHANGED <<Flight, sendMrs>>
  PROVE  ListApart'
BY DEF FlightInv, ListApart, IsAccess, Positions
-----------------------------------------------------------------------------
(***************************************************************************)
(* The work thread begins and ends a work.                                 *)
(***************************************************************************)
LEMMA InvTake ==
  ASSUME FlightInv, Take
  PROVE  FlightInv'
<1>1. /\ work = Idle /\ workList # <<>>
      /\ work' = [at |-> "start", job |-> Head(workList)]
      /\ workList' = Tail(workList)
      /\ UNCHANGED <<info, taskDone, table, writeFlag, refusing, sendMrs, qp, cq, broken, granted>>
  BY DEF Take, entry, net, server
<1>2. workList \in Seq(Jobs \cup {Poll})
  BY DEF FlightInv, Types
<1>3. Head(workList) \in Jobs \cup {Poll} /\ workList' \in Seq(Jobs \cup {Poll})
  BY <1>1, <1>2, HeadTailProperties
<1>4. work' \in Works
  BY <1>1, <1>3 DEF Works
<1>5. Types'
  BY <1>1, <1>3, <1>4 DEF FlightInv, Types
<1>6. Flight' = Flight
  BY <1>1 DEF Flight
<1>7. SmallWrites /\ ~ taskDone /\ WildTransient /\ Known = granted
  BY <1>1, NothingAwaited DEF Idle
<1> QED BY <1>1, <1>5, <1>6, <1>7, FlagsKept, ListKept, Rests
   DEF Known, WildTransient

LEMMA InvNotFound ==
  ASSUME FlightInv, NotFound
  PROVE  FlightInv'
<1>1. /\ work.at = "start" /\ work' = Idle /\ info' = NoInfo /\ taskDone' = FALSE
      /\ UNCHANGED <<workList, table, writeFlag, refusing, sendMrs, qp, cq, broken, granted>>
  BY DEF NotFound, Starts, Done, entry, net, server
<1>2. Types'
  BY <1>1 DEF FlightInv, Types, Works, NoInfo
<1>3. Flight' = Flight
  BY <1>1 DEF Flight
<1>4. SmallWrites /\ WildTransient /\ Known = granted
  BY <1>1, NothingAwaited
<1>5. work'.at \in {"idle", "start", "poll"}
  BY <1>1 DEF Idle
<1> QED BY <1>1, <1>2, <1>3, <1>4, <1>5, FlagsKept, ListKept, Rests
   DEF Known, WildTransient

LEMMA InvPostPoll ==
  ASSUME FlightInv, PostPoll
  PROVE  FlightInv'
<1>1. /\ Starts("poll")
      /\ work' = [work EXCEPT !.at = "poll"]
      /\ UNCHANGED <<workList, info, taskDone, table, writeFlag, refusing, sendMrs, qp, cq, broken, granted>>
  BY DEF PostPoll, app, entry, server
<1>2. work = [at |-> "start", job |-> work.job] /\ work.job = Poll
  BY <1>1, WorkKinds, JobKinds DEF Starts, FlightInv, Types
<1>3. work' = [at |-> "poll", job |-> Poll] /\ work' \in Works
  BY <1>1, <1>2 DEF Works
<1>4. Types'
  BY <1>1, <1>3 DEF FlightInv, Types
<1>5. Flight' = Flight
  BY <1>1 DEF Flight
<1>6. SmallWrites /\ ~ taskDone /\ WildTransient /\ Known = granted
  BY <1>1, NothingAwaited DEF Starts
<1> QED BY <1>1, <1>3, <1>4, <1>5, <1>6, FlagsKept, ListKept, Rests
   DEF Known, WildTransient

LEMMA InvPollDone ==
  ASSUME FlightInv, PollDone
  PROVE  FlightInv'
<1>1. /\ work.at \in {"start", "poll"} /\ work' = Idle
      /\ UNCHANGED <<workList, info, taskDone, table, writeFlag, refusing, sendMrs, qp, cq, broken, granted>>
  BY DEF PollDone, Starts, app, entry, net, server
<1>2. Types'
  BY <1>1 DEF FlightInv, Types, Works
<1>3. Flight' = Flight
  BY <1>1 DEF Flight
<1>4. SmallWrites /\ ~ taskDone /\ WildTransient /\ Known = granted
  BY <1>1, NothingAwaited
<1>5. work'.at \in {"idle", "start", "poll"}
  BY <1>1 DEF Idle
<1> QED BY <1>1, <1>2, <1>3, <1>4, <1>5, FlagsKept, ListKept, Rests
   DEF Known, WildTransient

\* The answer came when nothing else was under way: no write_flag is lost
\* when that of the new addr_info is cleared.
LEMMA InvMallocDone ==
  ASSUME FlightInv, MallocDone
  PROVE  FlightInv'
<1>1. /\ work.at = "malloc" /\ info.length # 0
      /\ work' = Idle /\ info' = NoInfo /\ taskDone' = FALSE
      /\ IF info.addr = Null THEN UNCHANGED <<table, writeFlag>>
         ELSE /\ table' = table \cup {info.addr}
              /\ writeFlag' = writeFlag \ {info.addr}
      /\ UNCHANGED <<workList, refusing, sendMrs, qp, cq, broken, granted>>
  BY DEF MallocDone, Done, Refused, entry, net, server
<1>2. info.length = 1
  BY <1>1 DEF FlightInv, Types
<1>3. /\ Known' = granted /\ WildTransient' /\ table' \subseteq Objects \cup {Wild}
      /\ writeFlag' \subseteq writeFlag
  <2>1. CASE refusing
    <3>1. info.addr \in {Null, Wild} /\ Known = granted
      BY <1>1, <1>2, <2>1 DEF FlightInv, FlagsFresh, TableFollows
    <3> QED BY <1>1, <2>1, <3>1 DEF FlightInv, Types, Known, WildTransient
  <2>2. CASE ~ refusing
    <3>1. Wild \notin table
      BY <2>2 DEF FlightInv, FlagsFresh, WildTransient
    <3>2. IF info.addr = Null THEN Known = granted
          ELSE info.addr \in Objects /\ granted = Known \cup {info.addr}
      BY <1>1, <1>2, <2>2 DEF FlightInv, TableFollows
    <3> QED BY <1>1, <2>2, <3>1, <3>2, ClientAssumption
            DEF FlightInv, Types, Known, WildTransient
  <2> QED BY <2>1, <2>2
<1>4. Types'
  BY <1>1, <1>3 DEF FlightInv, Types, Works, NoInfo
<1>5. Flight' = Flight
  BY <1>1 DEF Flight
<1>6. Len(Flight) = 0
  BY <1>1, <1>2 DEF FlightInv, FlagsFresh
<1>7. Positions = {} /\ Positions' = {}
  BY <1>5, <1>6 DEF Positions
<1>8. SmallWrites /\ ListApart'
  BY <1>7 DEF SmallWrites, ListApart
<1>9. FlagsExact'
  BY <1>1, <1>3, <1>7 DEF FlightInv, FlagsExact
<1>10. work'.at \in {"idle", "start", "poll"}
  BY <1>1 DEF Idle
<1> QED BY <1>1, <1>3, <1>4, <1>5, <1>8, <1>9, <1>10, Rests

LEMMA InvFreeDone ==
  ASSUME FlightInv, FreeDone
  PROVE  FlightInv'
<1>1. /\ work.at = "free" /\ info.addr = Null
      /\ work' = Idle /\ info' = NoInfo /\ taskDone' = FALSE
      /\ UNCHANGED <<workList, table, writeFlag, refusing, sendMrs, qp, cq, broken, granted>>
  BY DEF FreeDone, Done, entry, net, server
<1>2. Types'
  BY <1>1 DEF FlightInv, Types, Works, NoInfo
<1>3. Flight' = Flight
  BY <1>1 DEF Flight
<1>4. ASSUME NEW i \in Positions PROVE ~ Awaited(Flight[i])
  <2>1. Flight[i].op \in {"malloc", "free", "read", "write", "granted", "refused", "freed"}
    BY FlightParts, MessageKinds DEF FlightInv, Types
  <2> QED BY <1>1, <2>1 DEF FlightInv, AwaitedLast, AwaitedBy
<1>5. SmallWrites /\ WildTransient /\ Known = granted
  BY <1>1, <1>4 DEF SmallWrites, FlightInv, FlagsFresh, TableFollows
<1>6. work'.at \in {"idle", "start", "poll"}
  BY <1>1 DEF Idle
<1> QED BY <1>1, <1>2, <1>3, <1>5, <1>6, FlagsKept, ListKept, Rests
   DEF Known, WildTransient

\* done_flag says that what was waited for is over.
LEMMA TaskIsOver ==
  ASSUME FlightInv, work.at \in {"read", "write"}, taskDone
  PROVE  SmallWrites /\ WildTransient /\ Known = granted
<1>1. ASSUME NEW i \in Positions PROVE ~ Awaited(Flight[i])
  <2>1. Flight[i].op \in {"malloc", "free", "read", "write", "granted", "refused", "freed"}
    BY FlightParts, MessageKinds DEF FlightInv, Types
  <2> QED BY <2>1 DEF FlightInv, AwaitedLast, AwaitedBy
<1> QED BY <1>1 DEF SmallWrites, FlightInv, FlagsFresh, TableFollows

\* The read's buffer is nobody else's.
LEMMA InvReadDone ==
  ASSUME FlightInv, ReadDone
  PROVE  FlightInv'
<1>1. /\ work.at = "read" /\ taskDone
      /\ work' = Idle /\ info' = NoInfo /\ taskDone' = FALSE
      /\ sendMrs' = sendMrs \cup ({work.buf} \cap Buffers)
      /\ UNCHANGED <<workList, table, writeFlag, refusing, qp, cq, broken, granted>>
  BY DEF ReadDone, Release, Done, entry, net, server
<1>2. Types'
  BY <1>1 DEF FlightInv, Types, Works, NoInfo
<1>3. Flight' = Flight
  BY <1>1 DEF Flight
<1>4. SmallWrites /\ WildTransient /\ Known = granted
  BY <1>1, TaskIsOver
<1>5. ASSUME NEW i \in Positions, IsAccess(Flight[i])
      PROVE  Flight[i].buf \notin sendMrs'
  <2>1. Flight[i].op # "read"
    BY <1>4 DEF SmallWrites, Awaited
  <2>2. Flight[i].buf # work.buf
    BY <1>1, <1>5, <2>1 DEF FlightInv, ReadApart
  <2> QED BY <1>1, <1>5, <2>2 DEF FlightInv, ListApart
<1>6. ListApart'
  BY <1>3, <1>5 DEF ListApart, IsAccess, Positions
<1>7. work'.at \in {"idle", "start", "poll"}
  BY <1>1 DEF Idle
<1> QED BY <1>1, <1>2, <1>3, <1>4, <1>6, <1>7, FlagsKept, Rests
   DEF Known, WildTransient

LEMMA InvWriteDone ==
  ASSUME FlightInv, WriteDone
  PROVE  FlightInv'
<1>1. /\ work.at = "write" /\ taskDone
      /\ work' = Idle /\ info' = NoInfo /\ taskDone' = FALSE
      /\ UNCHANGED <<workList, table, writeFlag, refusing, sendMrs, qp, cq, broken, granted>>
  BY DEF WriteDone, Done, entry, net, server
<1>2. Types'
  BY <1>1 DEF FlightInv, Types, Works, NoInfo
<1>3. Flight' = Flight
  BY <1>1 DEF Flight
<1>4. SmallWrites /\ WildTransient /\ Known = granted
  BY <1>1, TaskIsOver
<1>5. work'.at \in {"idle", "start", "poll"}
  BY <1>1 DEF Idle
<1> QED BY <1>1, <1>2, <1>3, <1>4, <1>5, FlagsKept, ListKept, Rests
   DEF Known, WildTransient
-----------------------------------------------------------------------------
(***************************************************************************)
(* The work thread posts a request.                                        *)
(***************************************************************************)
\* The request comes after small writes only, with a buffer of its own.
LEMMA Posts ==
  ASSUME FlightInv, SmallWrites, NEW r \in Requests, Post(r),
         UNCHANGED <<cq, broken>>, sendMrs' \subseteq sendMrs,
         IsAccess(r) =>
           /\ r.buf \notin sendMrs'
           /\ \A i \in Positions : IsAccess(Flight[i]) => Flight[i].buf # r.buf,
         ~ broken => (Awaited(r) => AwaitedBy(r)')
  PROVE  /\ qp' \in Seq(Requests)
         /\ \A i \in Positions' :
              \/ i \in Positions /\ Flight'[i] = Flight[i]
              \/ ~ broken /\ i = Len(Flight) + 1 /\ Flight'[i] = r
         /\ AwaitedLast' /\ OneRequestEach' /\ ListApart'
<1>1. qp \in Seq(Requests) /\ cq \in Seq(Completions) /\ cq' = cq
  BY DEF FlightInv, Types
<1>2. /\ qp' \in Seq(Requests)
      /\ broken => Flight' = Flight
      /\ ~ broken =>
           /\ Len(Flight') = Len(Flight) + 1
           /\ \A i \in Positions : Flight'[i] = Flight[i]
           /\ Flight'[Len(Flight) + 1] = r
  BY <1>1, FlightPost
<1>3. Len(Flight) \in Nat
  BY <1>1, FlightParts
<1>4. ASSUME NEW i \in Positions'
      PROVE  \/ i \in Positions /\ Flight'[i] = Flight[i]
             \/ ~ broken /\ i = Len(Flight) + 1 /\ Flight'[i] = r
  BY <1>2, <1>3 DEF Positions
<1>5. AwaitedLast'
  <2> SUFFICES ASSUME NEW i \in Positions', Awaited(Flight'[i])
               PROVE  i = Len(Flight') /\ AwaitedBy(Flight[i])'
    BY DEF AwaitedLast, Awaited
  <2>1. ~ broken /\ i = Len(Flight) + 1 /\ Flight'[i] = r
    BY <1>4 DEF SmallWrites
  <2>2. AwaitedBy(r)'
    BY <2>1
  <2> QED BY <1>2, <2>1, <2>2 DEF AwaitedBy
<1>6. OneRequestEach'
  <2> SUFFICES ASSUME NEW i \in Positions', NEW j \in Positions',
                      IsAccess(Flight'[i]), IsAccess(Flight'[j]),
                      Flight'[i].buf = Flight'[j].buf
               PROVE  i = j
    BY DEF OneRequestEach, IsAccess
  <2> QED BY <1>4 DEF FlightInv, OneRequestEach
<1>7. ListApart'
  <2> SUFFICES ASSUME NEW i \in Positions', IsAccess(Flight'[i])
               PROVE  Flight'[i].buf \notin sendMrs'
    BY DEF ListApart, IsAccess
  <2> QED BY <1>4 DEF FlightInv, ListApart
<1> QED BY <1>2, <1>4, <1>5, <1>6, <1>7

\* Only posting a write and completing one concern write_flag.
LEMMA FlagsOfOthers ==
  ASSUME FlightInv, UNCHANGED <<broken, writeFlag>>, NEW r, r.op # "write",
         Len(Flight) \in Nat,
         broken => Flight' = Flight,
         ~ broken =>
           /\ Len(Flight') = Len(Flight) + 1
           /\ \A i \in Positions : Flight'[i] = Flight[i]
           /\ Flight'[Len(Flight) + 1] = r
  PROVE  FlagsExact'
<1> SUFFICES ASSUME ~ broken, NEW o \in Objects
             PROVE  /\ o \in writeFlag <=> \E i \in Positions' : IsWrite(i, o)'
                    /\ \A i, j \in Positions' : IsWrite(i, o)' /\ IsWrite(j, o)' => i = j
  BY DEF FlagsExact
<1>1. \A i \in Positions : i \in Positions' /\ (IsWrite(i, o)' <=> IsWrite(i, o))
  BY DEF IsWrite, Positions
<1>2. \A i \in Positions' : IsWrite(i, o)' => i \in Positions
  BY DEF IsWrite, Positions
<1>3. /\ o \in writeFlag <=> \E i \in Positions : IsWrite(i, o)
      /\ \A i, j \in Positions : IsWrite(i, o) /\ IsWrite(j, o) => i = j
  BY DEF FlightInv, FlagsExact
<1> QED BY <1>1, <1>2, <1>3

LEMMA InvPostMalloc ==
  ASSUME FlightInv, PostMalloc
  PROVE  FlightInv'
<1> DEFINE r == [op |-> "malloc"]
<1>1. /\ Starts("malloc") /\ Post(r)
      /\ info' \in [length : {0}, addr : {Null, Wild}]
      /\ work' = [work EXCEPT !.at = "malloc"]
      /\ UNCHANGED <<workList, taskDone, table, writeFlag, refusing, sendMrs, cq, broken, granted>>
  BY DEF PostMalloc, app, entry, server
<1>2. SmallWrites /\ ~ taskDone /\ WildTransient /\ Known = granted
  BY <1>1, NothingAwaited DEF Starts
<1>3. work = [at |-> "start", job |-> work.job] /\ work.job \in MallocJob
  BY <1>1, WorkKinds, JobKinds DEF Starts, FlightInv, Types
<1>4. work' = [at |-> "malloc", job |-> work.job] /\ work' \in Works
  BY <1>1, <1>3 DEF Works
<1>5. r \in Requests /\ ~ IsAccess(r) /\ AwaitedBy(r)'
  BY <1>1, <1>4 DEF Requests, IsAccess, AwaitedBy
<1> HIDE DEF r
<1>6. /\ qp' \in Seq(Requests)
      /\ \A i \in Positions' :
           \/ i \in Positions /\ Flight'[i] = Flight[i]
           \/ ~ broken /\ i = Len(Flight) + 1 /\ Flight'[i] = r
      /\ AwaitedLast' /\ OneRequestEach' /\ ListApart'
  BY <1>1, <1>2, <1>5, Posts
<1>7. Types'
  BY <1>1, <1>4, <1>6 DEF FlightInv, Types
<1>8. FlagsFresh' /\ ReadApart'
  BY <1>1, <1>2, <1>4 DEF FlagsFresh, ReadApart, WildTransient
<1>9. FlagsExact'
  <2>1. qp \in Seq(Requests) /\ cq \in Seq(Completions) /\ cq' = cq
    BY <1>1 DEF FlightInv, Types
  <2>2. r.op # "write"
    BY DEF r
  <2> QED BY <1>1, <1>5, <2>1, <2>2, FlightParts, FlightPost, FlagsOfOthers
<1>10. TableFollows'
  <2>1. ASSUME NEW i \in Positions' PROVE Flight'[i].op # "granted"
    BY <1>2, <1>6 DEF SmallWrites, Awaited, r
  <2> QED BY <1>1, <1>2, <1>4, <2>1 DEF TableFollows, Known
<1> QED BY <1>6, <1>7, <1>8, <1>9, <1>10 DEF FlightInv

\* The entry leaves the table before the server frees the region.
LEMMA InvPostFree ==
  ASSUME FlightInv, PostFree
  PROVE  FlightInv'
<1>1. /\ Starts("free") /\ Post([op |-> "free", obj |-> work.job.obj])
      /\ work.job.obj \in table /\ table' = table \ {work.job.obj}
      /\ info' = [length |-> 1, addr |-> work.job.obj]
      /\ work' = [work EXCEPT !.at = "free"]
      /\ UNCHANGED <<workList, taskDone, writeFlag, refusing, sendMrs, cq, broken, granted>>
  BY DEF PostFree, Unlink, app, server
<1>2. SmallWrites /\ ~ taskDone /\ WildTransient /\ Known = granted
  BY <1>1, NothingAwaited DEF Starts
<1>3. work = [at |-> "start", job |-> work.job] /\ work.job \in FreeJob
  BY <1>1, WorkKinds, JobKinds DEF Starts, FlightInv, Types
<1>4. work' = [at |-> "free", job |-> work.job] /\ work' \in Works
  BY <1>1, <1>3 DEF Works
<1>5. work.job.obj \in Objects /\ work.job.obj # Null
  BY <1>3, ClientAssumption DEF FreeJob
<1>. PICK r \in Requests : r = [op |-> "free", obj |-> work.job.obj]
  BY <1>5 DEF Requests
<1>6. /\ r.op = "free" /\ Post(r) /\ ~ IsAccess(r)
      /\ AwaitedBy(r)'
  BY <1>1, <1>4, <1>5 DEF IsAccess, AwaitedBy
<1>7. /\ qp' \in Seq(Requests)
      /\ \A i \in Positions' :
           \/ i \in Positions /\ Flight'[i] = Flight[i]
           \/ ~ broken /\ i = Len(Flight) + 1 /\ Flight'[i] = r
      /\ AwaitedLast' /\ OneRequestEach' /\ ListApart'
  BY <1>1, <1>2, <1>6, Posts
<1>8. Types'
  BY <1>1, <1>4, <1>5, <1>7 DEF FlightInv, Types
<1>9. FlagsFresh' /\ ReadApart'
  BY <1>1, <1>2, <1>4 DEF FlagsFresh, ReadApart, WildTransient
<1>10. FlagsExact'
  <2>1. qp \in Seq(Requests) /\ cq \in Seq(Completions) /\ cq' = cq
    BY <1>1 DEF FlightInv, Types
  <2> QED BY <1>1, <1>6, <2>1, FlightParts, FlightPost, FlagsOfOthers
<1>11. TableFollows'
  <2>1. ASSUME NEW i \in Positions' PROVE Flight'[i].op # "freed"
    BY <1>2, <1>6, <1>7 DEF SmallWrites, Awaited
  <2>2. info'.addr # Null /\ work'.at = "free" /\ work'.job = work.job
    BY <1>1, <1>4, <1>5
  <2>3. work.job.obj \notin Known' /\ granted' = Known' \cup {work.job.obj}
    BY <1>1, <1>2, <1>5, ClientAssumption DEF Known
  <2> QED BY <2>1, <2>2, <2>3 DEF TableFollows
<1> QED BY <1>7, <1>8, <1>9, <1>10, <1>11 DEF FlightInv

LEMMA UnderWayIsInUse ==
  ASSUME qp \in Seq(Requests), cq \in Seq(Completions),
         NEW i \in Positions, IsAccess(Flight[i])
  PROVE  Flight[i].buf \in InUse
<1>1. Flight[i] \in ToSet(qp) \cup ToSet(cq)
  <2>1. CASE i <= Len(cq)
    BY <2>1, FlightParts DEF ToSet, Positions
  <2>2. CASE i > Len(cq)
    <3>1. Flight[i] = qp[i - Len(cq)] /\ i - Len(cq) \in 1 .. Len(qp)
      BY <2>2, FlightParts DEF Positions
    <3> QED BY <3>1 DEF ToSet
  <2> QED BY <2>1, <2>2, FlightParts DEF Positions
<1>2. Flight[i] \in {q \in ToSet(qp) \cup ToSet(cq) : q.op \in {"read", "write"}}
  BY <1>1 DEF IsAccess
<1> QED BY <1>2 DEF InUse

\* The memory of the caller is used by no small write, and a buffer of the
\* list, or a new one, by nobody.
LEMMA FreshBuffer ==
  ASSUME FlightInv, SmallWrites, NEW b \in Buffers \cup Apps, GetMr(b),
         work.job.app \in Apps
  PROVE  /\ b \in Apps <=> work.job.obj \in Large
         /\ sendMrs' \subseteq sendMrs /\ b \notin sendMrs'
         /\ \A i \in Positions : IsAccess(Flight[i]) => Flight[i].buf # b
<1>1. sendMrs \subseteq Buffers /\ qp \in Seq(Requests) /\ cq \in Seq(Completions)
  BY DEF FlightInv, Types
<1>2. CASE work.job.obj \in Large
  <2>1. b = work.job.app /\ sendMrs' = sendMrs
    BY <1>2 DEF GetMr
  <2>2. ASSUME NEW i \in Positions, IsAccess(Flight[i])
        PROVE  Flight[i].buf \notin Apps
    BY <2>2 DEF SmallWrites, Awaited, IsAccess
  <2> QED BY <1>1, <1>2, <2>1, <2>2, ClientAssumption
<1>3. CASE work.job.obj \notin Large
  <2>1. b \in Buffers /\ (b \in sendMrs \/ b \notin InUse) /\ sendMrs' = sendMrs \ {b}
    BY <1>3 DEF GetMr
  <2>2. ASSUME NEW i \in Positions, IsAccess(Flight[i])
        PROVE  Flight[i].buf # b
    BY <1>1, <2>1, <2>2, UnderWayIsInUse DEF FlightInv, ListApart
  <2> QED BY <1>3, <2>1, <2>2, ClientAssumption
<1> QED BY <1>2, <1>3

LEMMA InvPostRead ==
  ASSUME FlightInv, PostRead
  PROVE  FlightInv'
<1>1. PICK b \in Buffers \cup Apps :
        /\ GetMr(b)
        /\ Post([op |-> "read", obj |-> work.job.obj, buf |-> b,
                 dram |-> work.job.obj \in inDram])
        /\ work' = [at |-> "read", job |-> work.job, buf |-> b]
  BY DEF PostRead
<1>2. /\ Starts("read")
      /\ UNCHANGED <<workList, info, taskDone, table, writeFlag, refusing, cq, broken, granted>>
  BY DEF PostRead, app, entry, server
<1>3. SmallWrites /\ ~ taskDone /\ WildTransient /\ Known = granted
  BY <1>2, NothingAwaited DEF Starts
<1>4. work.job \in ReadJob
  BY <1>2, WorkKinds, JobKinds DEF Starts, FlightInv, Types
<1>5. work' \in Works
  BY <1>1, <1>4 DEF Works
<1>6. work.job.app \in Apps /\ work.job.obj \in Objects
  BY <1>4 DEF ReadJob
<1>7. /\ sendMrs' \subseteq sendMrs /\ b \notin sendMrs'
      /\ \A i \in Positions : IsAccess(Flight[i]) => Flight[i].buf # b
  BY <1>1, <1>3, <1>6, FreshBuffer
<1>7a. [op |-> "read", obj |-> work.job.obj, buf |-> b,
       dram |-> work.job.obj \in inDram] \in Requests
  BY <1>6 DEF Requests
<1>. PICK r \in Requests : r = [op |-> "read", obj |-> work.job.obj, buf |-> b,
                                dram |-> work.job.obj \in inDram]
  BY <1>7a, Zenon
<1>8. /\ r.op = "read" /\ r.buf = b /\ Post(r)
      /\ AwaitedBy(r)'
  BY <1>1, <1>2, <1>3 DEF AwaitedBy
<1>9. /\ qp' \in Seq(Requests)
      /\ \A i \in Positions' :
           \/ i \in Positions /\ Flight'[i] = Flight[i]
           \/ ~ broken /\ i = Len(Flight) + 1 /\ Flight'[i] = r
      /\ AwaitedLast' /\ OneRequestEach' /\ ListApart'
  BY <1>2, <1>3, <1>7, <1>8, Posts
<1>10. Types'
  BY <1>2, <1>5, <1>7, <1>9 DEF FlightInv, Types
<1>11. FlagsFresh'
  BY <1>1, <1>2, <1>3 DEF FlagsFresh, WildTransient
<1>12. ReadApart'
  <2>1. ASSUME NEW i \in Positions', IsAccess(Flight'[i]), Flight'[i].buf = b
        PROVE  Flight'[i].op = "read"
    BY <1>7, <1>8, <1>9, <2>1
  <2> QED BY <1>1, <1>7, <2>1 DEF ReadApart, IsAccess
<1>13. FlagsExact'
  <2>1. qp \in Seq(Requests) /\ cq \in Seq(Completions) /\ cq' = cq
    BY <1>2 DEF FlightInv, Types
  <2> QED BY <1>2, <1>8, <2>1, FlightParts, FlightPost, FlagsOfOthers
<1>14. TableFollows'
  BY <1>1, <1>2, <1>3 DEF TableFollows, Known
<1> QED BY <1>9, <1>10, <1>11, <1>12, <1>13, <1>14 DEF FlightInv

\* The one place that sets write_flag waits until it is clear.
LEMMA FlagsOfWrite ==
  ASSUME FlightInv, UNCHANGED broken, NEW r, r.op = "write",
         r.obj \notin writeFlag, writeFlag' = writeFlag \cup {r.obj},
         Len(Flight) \in Nat,
         ~ broken =>
           /\ Len(Flight') = Len(Flight) + 1
           /\ \A i \in Positions : Flight'[i] = Flight[i]
           /\ Flight'[Len(Flight) + 1] = r
  PROVE  FlagsExact'
<1> SUFFICES ASSUME ~ broken, NEW o \in Objects
             PROVE  /\ o \in writeFlag' <=> \E i \in Positions' : IsWrite(i, o)'
                    /\ \A i, j \in Positions' : IsWrite(i, o)' /\ IsWrite(j, o)' => i = j
  BY DEF FlagsExact
<1> PICK n \in Nat : n = Len(Flight) + 1
  OBVIOUS
<1>1. \A i \in Positions : i \in Positions' /\ (IsWrite(i, o)' <=> IsWrite(i, o))
  BY DEF IsWrite, Positions
<1>2. n \in Positions' /\ (IsWrite(n, o)' <=> o = r.obj)
  BY DEF IsWrite, Positions
<1>3. \A i \in Positions' : i \in Positions \/ i = n
  BY DEF Positions
<1>4. /\ o \in writeFlag <=> \E i \in Positions : IsWrite(i, o)
      /\ \A i, j \in Positions : IsWrite(i, o) /\ IsWrite(j, o) => i = j
  BY DEF FlightInv, FlagsExact
<1>5. CASE o = r.obj
  BY <1>1, <1>2, <1>3, <1>4, <1>5
<1>6. CASE o # r.obj
  BY <1>1, <1>2, <1>3, <1>4, <1>6
<1> QED BY <1>5, <1>6

LEMMA InvPostWrite ==
  ASSUME FlightInv, PostWrite
  PROVE  FlightInv'
<1>1. PICK b \in Buffers \cup Apps :
        /\ GetMr(b)
        /\ Post([op |-> "write", obj |-> work.job.obj, buf |-> b,
                 dram |-> work.job.obj \in inDram])
  BY DEF PostWrite
<1>2. /\ Starts("write")
      /\ work.job.obj \notin writeFlag
      /\ writeFlag' = writeFlag \cup {work.job.obj}
      /\ UNCHANGED <<workList, table, refusing, cq, broken, granted>>
  BY DEF PostWrite, WriteIdle, server
<1>3. SmallWrites /\ ~ taskDone /\ WildTransient /\ Known = granted
  BY <1>2, NothingAwaited DEF Starts
<1>4. work = [at |-> "start", job |-> work.job] /\ work.job \in WriteJob
  BY <1>2, WorkKinds, JobKinds DEF Starts, FlightInv, Types
<1>5. work.job.app \in Apps /\ work.job.obj \in Objects
  BY <1>4 DEF WriteJob
<1>6. IF work.job.obj \in Large
      THEN /\ work' = [at |-> "write", job |-> work.job]
           /\ UNCHANGED <<info, taskDone>>
      ELSE work' = Idle /\ info' = NoInfo /\ taskDone' = FALSE
  BY <1>4 DEF PostWrite, Done
<1>7. /\ work' \in Works /\ work'.at \in {"write", "idle"}
      /\ ~ taskDone' /\ taskDone' \in BOOLEAN
      /\ info' \in [length : {0, 1}, addr : Objects \cup {Null, Wild}]
  <2>1. CASE work.job.obj \in Large
    <3>1. work' = [at |-> "write", job |-> work.job] /\ UNCHANGED <<info, taskDone>>
      BY <1>6, <2>1
    <3>2. work' \in Works
      BY <1>4, <3>1 DEF Works
    <3> QED BY <1>3, <3>1, <3>2 DEF FlightInv, Types
  <2>2. CASE work.job.obj \notin Large
    <3>1. work' = Idle /\ info' = NoInfo /\ taskDone' = FALSE
      BY <1>6, <2>2
    <3>2. work' \in Works
      BY <3>1 DEF Works
    <3> QED BY <3>1, <3>2 DEF Idle, NoInfo
  <2> QED BY <2>1, <2>2
<1>8. /\ b \in Apps <=> work.job.obj \in Large
      /\ sendMrs' \subseteq sendMrs /\ b \notin sendMrs'
      /\ \A i \in Positions : IsAccess(Flight[i]) => Flight[i].buf # b
  BY <1>1, <1>3, <1>5, FreshBuffer
<1>8a. [op |-> "write", obj |-> work.job.obj, buf |-> b,
       dram |-> work.job.obj \in inDram] \in Requests
  BY <1>5 DEF Requests
<1>. PICK r \in Requests : r = [op |-> "write", obj |-> work.job.obj, buf |-> b,
                                dram |-> work.job.obj \in inDram]
  BY <1>8a, Zenon
<1>9. r.op = "write" /\ r.buf = b /\ r.obj = work.job.obj /\ Post(r)
  BY <1>1
<1>10. Awaited(r) => AwaitedBy(r)'
  BY <1>6, <1>7, <1>8, <1>9 DEF Awaited, AwaitedBy
<1>11. /\ qp' \in Seq(Requests)
       /\ AwaitedLast' /\ OneRequestEach' /\ ListApart'
  BY <1>2, <1>3, <1>8, <1>9, <1>10, Posts
<1>12. Types'
  BY <1>2, <1>7, <1>8, <1>11 DEF FlightInv, Types
<1>13. FlagsFresh' /\ ReadApart' /\ TableFollows'
  BY <1>2, <1>3, <1>7 DEF FlagsFresh, ReadApart, TableFollows, Known, WildTransient
<1>14. FlagsExact'
  <2>1. qp \in Seq(Requests) /\ cq \in Seq(Completions) /\ cq' = cq
    BY <1>2 DEF FlightInv, Types
  <2> QED BY <1>2, <1>9, <2>1, FlightParts, FlightPost, FlagsOfWrite
<1> QED BY <1>11, <1>12, <1>13, <1>14 DEF FlightInv
-----------------------------------------------------------------------------
(***************************************************************************)
(* The connection executes a request.                                      *)
(***************************************************************************)
\* The completion of a read or a write takes the place of the request.
LEMMA SameFlight ==
  ASSUME FlightInv, qp # <<>>, IsAccess(Head(qp)), Completes(Head(qp))
  PROVE  /\ qp' \in Seq(Requests) /\ cq' \in Seq(Completions)
         /\ Flight' = Flight
<1>1. qp \in Seq(Requests) /\ cq \in Seq(Completions)
  BY DEF FlightInv, Types
<1>2. Head(qp) \in Requests
  BY <1>1, HeadTailProperties
<1>. PICK r \in Completions : r = Head(qp)
  BY <1>2 DEF Requests, Completions, IsAccess
<1>3. Completes(r)
  OBVIOUS
<1>4. /\ qp' \in Seq(Requests) /\ cq' \in Seq(Completions)
      /\ Len(Flight') = Len(Flight)
      /\ \E k \in Positions :
           /\ Flight[k] = Head(qp) /\ Flight'[k] = r
           /\ \A i \in Positions : i # k => Flight'[i] = Flight[i]
  BY <1>1, <1>3, FlightComplete
<1>5. \A i \in 1 .. Len(Flight) : Flight'[i] = Flight[i]
  BY <1>4 DEF Positions
<1>6. Flight \in Seq(Messages) /\ Flight' \in Seq(Messages)
  BY <1>1, <1>4, FlightParts, FlightPartsPrimed
<1>7. Flight' = Flight
  BY <1>4, <1>5, <1>6, SeqEqual
<1> QED BY <1>4, <1>7

LEMMA InvExecRead ==
  ASSUME FlightInv, ExecRead
  PROVE  FlightInv'
<1>1. /\ qp # <<>> /\ Head(qp).op = "read" /\ Completes(Head(qp))
      /\ UNCHANGED <<workList, work, info, taskDone, table, writeFlag, refusing,
                     sendMrs, broken, granted>>
  BY DEF ExecRead, Runs, app, entry, server
<1>2. qp' \in Seq(Requests) /\ cq' \in Seq(Completions) /\ Flight' = Flight
  BY <1>1, SameFlight DEF IsAccess
<1>3. Types'
  BY <1>1, <1>2 DEF FlightInv, Types
<1> QED BY <1>1, <1>2, <1>3, Kept

LEMMA InvExecWrite ==
  ASSUME FlightInv, ExecWrite
  PROVE  FlightInv'
<1>1. /\ qp # <<>> /\ Head(qp).op = "write" /\ Completes(Head(qp))
      /\ UNCHANGED <<workList, work, info, taskDone, table, writeFlag, refusing,
                     sendMrs, broken, granted>>
  BY DEF ExecWrite, Runs, app, entry
<1>2. qp' \in Seq(Requests) /\ cq' \in Seq(Completions) /\ Flight' = Flight
  BY <1>1, SameFlight DEF IsAccess
<1>3. Types'
  BY <1>1, <1>2 DEF FlightInv, Types
<1> QED BY <1>1, <1>2, <1>3, Kept

\* The requests are flushed; only small writes are then left.
LEMMA InvAccessError ==
  ASSUME FlightInv, AccessError
  PROVE  FlightInv'
<1>1. /\ qp # <<>> /\ IsAccess(Head(qp))
      /\ broken' = TRUE /\ qp' = <<>> /\ cq' = cq
      /\ UNCHANGED <<workList, work, info, taskDone, table, writeFlag, refusing,
                     sendMrs, granted>>
  BY DEF AccessError, Runs, IsAccess, app, entry, server
<1>2. qp \in Seq(Requests) /\ cq \in Seq(Completions)
  BY DEF FlightInv, Types
<1>3. qp' \in Seq(Requests) /\ cq' \in Seq(Completions)
  BY <1>1, <1>2
<1>4. /\ Len(cq) \in Nat /\ Len(qp) \in Nat /\ Len(qp) > 0
      /\ Len(Flight) = Len(cq) + Len(qp)
      /\ Len(Flight') = Len(cq)
  BY <1>1, <1>2, <1>3, EmptySeq, FlightParts, FlightPartsPrimed
<1>5. ASSUME NEW i \in Positions'
      PROVE  i \in Positions /\ i # Len(Flight) /\ Flight'[i] = Flight[i]
  BY <1>1, <1>2, <1>3, <1>4, FlightParts, FlightPartsPrimed DEF Positions
<1>6. ASSUME NEW i \in Positions' PROVE ~ Awaited(Flight[i])
  BY <1>5 DEF FlightInv, AwaitedLast
<1>7. AwaitedLast'
  BY <1>5, <1>6 DEF AwaitedLast, Awaited
<1>8. FlagsFresh'
  BY <1>1, <1>4 DEF FlightInv, FlagsFresh, WildTransient
<1>9. OneRequestEach' /\ ListApart'
  BY <1>1, <1>5 DEF FlightInv, OneRequestEach, ListApart, IsAccess
<1>10. ReadApart'
  BY <1>1, <1>5 DEF FlightInv, ReadApart, IsAccess
<1>11. FlagsExact'
  BY <1>1 DEF FlagsExact
<1>12. TableFollows'
  BY <1>1, <1>5 DEF FlightInv, TableFollows, Known
<1>13. Types'
  BY <1>1, <1>3 DEF FlightInv, Types
<1> QED BY <1>7, <1>8, <1>9, <1>10, <1>11, <1>12, <1>13 DEF FlightInv

\* The answer takes the place of the request, the last of all, whose sender
\* spins on.
LEMMA Answers ==
  ASSUME FlightInv, ~ broken, qp # <<>>, Head(qp).op \in {"malloc", "free"},
         NEW c \in Completions, Completes(c),
         Head(qp).op = "malloc" => c.op \in {"granted", "refused"},
         Head(qp).op = "free" => c.op = "freed",
         UNCHANGED <<workList, work, info, taskDone, table, writeFlag, refusing,
                     sendMrs, broken>>
  PROVE  /\ Types' /\ AwaitedLast' /\ FlagsFresh'
         /\ OneRequestEach' /\ ListApart' /\ ReadApart' /\ FlagsExact'
         /\ AwaitedBy(Head(qp))
         /\ \E k \in Positions :
              /\ Flight[k] = Head(qp) /\ Positions' = Positions
              /\ \A i \in Positions :
                   IF i = k THEN Flight'[i] = c
                   ELSE Flight'[i] = Flight[i] /\ ~ Awaited(Flight[i])
<1>1. qp \in Seq(Requests) /\ cq \in Seq(Completions)
  BY DEF FlightInv, Types
<1>2. /\ qp' \in Seq(Requests) /\ cq' \in Seq(Completions)
      /\ Len(Flight') = Len(Flight)
      /\ \E k \in Positions :
           /\ Flight[k] = Head(qp) /\ Flight'[k] = c
           /\ \A i \in Positions : i # k => Flight'[i] = Flight[i]
  BY <1>1, FlightComplete
<1>. PICK k \in Positions :
        /\ Flight[k] = Head(qp) /\ Flight'[k] = c
        /\ \A i \in Positions : i # k => Flight'[i] = Flight[i]
  BY <1>2
<1>3. Positions' = Positions
  BY <1>2 DEF Positions
<1>4. k = Len(Flight) /\ AwaitedBy(Head(qp))
  BY DEF FlightInv, AwaitedLast, Awaited
<1>5. \A i \in Positions : i # k => ~ Awaited(Flight[i])
  BY <1>4 DEF FlightInv, AwaitedLast
<1>6. AwaitedBy(c)'
  BY <1>4 DEF AwaitedBy
<1>7. AwaitedLast'
  BY <1>2, <1>3, <1>4, <1>5, <1>6 DEF AwaitedLast, Awaited, AwaitedBy
<1>8. Types'
  BY <1>2 DEF FlightInv, Types
<1>9. FlagsFresh'
  BY <1>2 DEF FlightInv, FlagsFresh, WildTransient
<1>10. ~ IsAccess(c) /\ ~ IsAccess(Head(qp))
  BY DEF IsAccess
<1>11. \A i \in Positions : IsAccess(Flight'[i]) => i # k /\ IsAccess(Flight[i])
  BY <1>10
<1>12. OneRequestEach'
  BY <1>3, <1>11 DEF FlightInv, OneRequestEach, IsAccess
<1>13. ListApart'
  BY <1>3, <1>11 DEF FlightInv, ListApart, IsAccess
<1>14. ReadApart'
  BY <1>3, <1>11 DEF FlightInv, ReadApart, IsAccess
<1>15. FlagsExact'
  <2>1. \A i \in Positions, o \in Objects : IsWrite(i, o)' <=> IsWrite(i, o)
    BY <1>10 DEF IsWrite, IsAccess
  <2> QED BY <1>3, <2>1 DEF FlightInv, FlagsExact
<1> QED BY <1>3, <1>4, <1>5, <1>7, <1>8, <1>9, <1>12, <1>13, <1>14, <1>15

LEMMA InvServeMalloc ==
  ASSUME FlightInv, ServeMalloc
  PROVE  FlightInv'
<1>1. /\ ~ broken /\ qp # <<>> /\ Head(qp).op = "malloc"
      /\ UNCHANGED <<workList, work, info, taskDone, table, writeFlag, refusing,
                     sendMrs, broken>>
  BY DEF ServeMalloc, Runs, app, entry
<1>2. PICK c \in Completions :
        /\ Completes(c)
        /\ \/ /\ c.op = "granted" /\ granted' = granted \cup {c.obj}
           \/ /\ c.op = "refused" /\ granted' = granted
  <2>1. CASE \E o \in Objects \ granted :
                /\ granted' = granted \cup {o}
                /\ Completes([op |-> "granted", obj |-> o])
    <3>1. PICK o \in Objects \ granted :
            /\ granted' = granted \cup {o}
            /\ Completes([op |-> "granted", obj |-> o])
      BY <2>1
    <3>2. [op |-> "granted", obj |-> o] \in Completions
      BY DEF Completions
    <3> QED BY <3>1, <3>2
  <2>2. CASE Completes([op |-> "refused"]) /\ granted' = granted
    <3>1. [op |-> "refused"] \in Completions
      BY DEF Completions
    <3> QED BY <2>2, <3>1
  <2> QED BY <2>1, <2>2 DEF ServeMalloc
<1>3. /\ Types' /\ AwaitedLast' /\ FlagsFresh'
      /\ OneRequestEach' /\ ListApart' /\ ReadApart' /\ FlagsExact'
      /\ AwaitedBy(Head(qp))
      /\ \E k \in Positions :
           /\ Flight[k] = Head(qp) /\ Positions' = Positions
           /\ \A i \in Positions :
                IF i = k THEN Flight'[i] = c
                ELSE Flight'[i] = Flight[i] /\ ~ Awaited(Flight[i])
  BY <1>1, <1>2, Answers
<1>4. work.at = "malloc" /\ info.length = 0
  BY <1>1, <1>3 DEF AwaitedBy
<1>5. Known = granted
  BY <1>1, <1>3, <1>4 DEF FlightInv, TableFollows
<1>6. \A i \in Positions' :
        /\ Flight'[i].op \in {"malloc", "refused"} => Known' = granted'
        /\ Flight'[i].op = "granted" => granted' = Known' \cup {Flight'[i].obj}
  BY <1>1, <1>2, <1>3, <1>5 DEF Awaited, Known
<1>7. TableFollows'
  BY <1>1, <1>4, <1>6 DEF TableFollows
<1> QED BY <1>3, <1>7 DEF FlightInv

LEMMA InvServeFree ==
  ASSUME FlightInv, ServeFree
  PROVE  FlightInv'
<1>1. /\ ~ broken /\ qp # <<>> /\ Head(qp).op = "free"
      /\ granted' = granted \ {Head(qp).obj}
      /\ Completes([op |-> "freed"])
      /\ UNCHANGED <<workList, work, info, taskDone, table, writeFlag, refusing,
                     sendMrs, broken>>
  BY DEF ServeFree, Runs, app, entry
<1>2. PICK c \in Completions : c = [op |-> "freed"] /\ Completes(c)
  BY <1>1 DEF Completions
<1>3. /\ Types' /\ AwaitedLast' /\ FlagsFresh'
      /\ OneRequestEach' /\ ListApart' /\ ReadApart' /\ FlagsExact'
      /\ AwaitedBy(Head(qp))
      /\ \E k \in Positions :
           /\ Flight[k] = Head(qp) /\ Positions' = Positions
           /\ \A i \in Positions :
                IF i = k THEN Flight'[i] = c
                ELSE Flight'[i] = Flight[i] /\ ~ Awaited(Flight[i])
  BY <1>1, <1>2, Answers
<1>4. work.at = "free" /\ info.addr # Null /\ Head(qp).obj = work.job.obj
  BY <1>1, <1>3 DEF AwaitedBy
<1>5. granted = Known \cup {work.job.obj} /\ work.job.obj \notin Known
  BY <1>1, <1>3, <1>4 DEF FlightInv, TableFollows
<1>6. granted' = Known
  BY <1>1, <1>4, <1>5
<1>7. \A i \in Positions' : Flight'[i].op # "free"
  BY <1>2, <1>3 DEF Awaited
<1>8. TableFollows'
  BY <1>1, <1>4, <1>5, <1>6, <1>7 DEF TableFollows, Known
<1> QED BY <1>3, <1>8 DEF FlightInv
-----------------------------------------------------------------------------
(***************************************************************************)
(* The epoll thread handles a completion or an answer.                     *)
(***************************************************************************)
\* When it is what the work thread waits for, nothing is left under way.
LEMMA Handled ==
  ASSUME FlightInv, UNCHANGED <<qp, work>>, cq # <<>>, cq' = Tail(cq)
  PROVE  /\ qp' \in Seq(Requests) /\ cq' \in Seq(Completions)
         /\ Head(cq) \in Completions
         /\ 1 \in Positions /\ Flight[1] = Head(cq)
         /\ Len(Flight) \in Nat /\ Len(Flight') = Len(Flight) - 1
         /\ \A i \in Positions' : i + 1 \in Positions /\ Flight'[i] = Flight[i + 1]
         /\ Awaited(Head(cq)) =>
              AwaitedBy(Head(cq)) /\ Len(Flight') = 0 /\ Positions' = {}
<1>1. qp \in Seq(Requests) /\ cq \in Seq(Completions) /\ qp' = qp
  BY DEF FlightInv, Types
<1>2. Head(cq) \in Completions
  BY <1>1, HeadTailProperties
<1>3. /\ cq' \in Seq(Completions)
      /\ 1 \in Positions /\ Flight[1] = Head(cq)
      /\ Len(Flight) \in Nat /\ Len(Flight') = Len(Flight) - 1
      /\ \A i \in Positions' : i + 1 \in Positions /\ Flight'[i] = Flight[i + 1]
  BY <1>1, FlightHandle
<1>4. Awaited(Head(cq)) => AwaitedBy(Head(cq)) /\ Len(Flight) = 1
  BY <1>3 DEF FlightInv, AwaitedLast
<1>5. Len(Flight) = 1 => Len(Flight') = 0 /\ Positions' = {}
  BY <1>3 DEF Positions
<1> QED BY <1>1, <1>2, <1>3, <1>4, <1>5

\* The answer is the last of all.
LEMMA NothingLeft ==
  ASSUME FlightInv, Types', Positions' = {}, FlagsFresh', TableFollows',
         UNCHANGED <<work, sendMrs, writeFlag, broken>>, cq # <<>>, cq' = Tail(cq),
         qp' = qp, Head(cq).op # "write", Awaited(Head(cq))
  PROVE  FlightInv'
<1>1. AwaitedLast' /\ OneRequestEach' /\ ListApart'
  BY DEF AwaitedLast, OneRequestEach, ListApart
<1>2. ReadApart'
  BY DEF FlightInv, ReadApart
<1>3. FlagsExact'
  <2>1. 1 \in Positions /\ Flight[1] = Head(cq) /\ Len(Flight) = 1
    BY Handled DEF FlightInv, AwaitedLast
  <2>2. \A o \in Objects, i \in Positions : ~ IsWrite(i, o)
    BY <2>1 DEF IsWrite, Positions
  <2> QED BY <2>2 DEF FlightInv, FlagsExact
<1> QED BY <1>1, <1>2, <1>3 DEF FlightInv

LEMMA InvReadCompletes ==
  ASSUME FlightInv, ReadCompletes
  PROVE  FlightInv'
<1>1. /\ cq # <<>> /\ Head(cq).op = "read" /\ cq' = Tail(cq) /\ taskDone' = TRUE
      /\ UNCHANGED <<workList, work, info, table, writeFlag, refusing, sendMrs, qp,
                     broken, granted>>
  BY DEF ReadCompletes, Handles, app, entry, server
<1>2. Awaited(Head(cq))
  BY <1>1 DEF Awaited
<1>3. /\ qp' \in Seq(Requests) /\ cq' \in Seq(Completions)
      /\ AwaitedBy(Head(cq)) /\ Len(Flight') = 0 /\ Positions' = {}
  BY <1>1, <1>2, Handled
<1>4. work.at = "read"
  BY <1>1, <1>3 DEF AwaitedBy
<1>5. Types'
  BY <1>1, <1>3 DEF FlightInv, Types
<1>6. FlagsFresh' /\ TableFollows'
  BY <1>1, <1>4 DEF FlightInv, FlagsFresh, TableFollows, Known, WildTransient
<1> QED BY <1>1, <1>2, <1>3, <1>5, <1>6, NothingLeft

LEMMA InvGrantArrives ==
  ASSUME FlightInv, GrantArrives
  PROVE  FlightInv'
<1>1. /\ ~ refusing /\ cq # <<>> /\ Head(cq).op = "granted" /\ cq' = Tail(cq)
      /\ info' = [length |-> 1, addr |-> Head(cq).obj]
      /\ UNCHANGED <<workList, work, taskDone, table, writeFlag, refusing, sendMrs, qp,
                     broken, granted>>
  BY DEF GrantArrives, Handles, app, entry, server
<1>2. Awaited(Head(cq))
  BY <1>1 DEF Awaited
<1>3. /\ qp' \in Seq(Requests) /\ cq' \in Seq(Completions)
      /\ Head(cq) \in Completions /\ 1 \in Positions /\ Flight[1] = Head(cq)
      /\ AwaitedBy(Head(cq)) /\ Len(Flight') = 0 /\ Positions' = {}
  BY <1>1, <1>2, Handled
<1>4. Head(cq).obj \in Objects /\ Head(cq).obj # Null
  BY <1>1, <1>3, ClientAssumption DEF Completions
<1>5. work.at = "malloc"
  BY <1>1, <1>3 DEF AwaitedBy
<1>6. granted = Known \cup {Head(cq).obj}
  BY <1>1, <1>3, <1>5 DEF FlightInv, TableFollows
<1>7. Types'
  BY <1>1, <1>3, <1>4 DEF FlightInv, Types
<1>8. FlagsFresh' /\ TableFollows'
  BY <1>1, <1>3, <1>4, <1>5, <1>6 DEF FlightInv, FlagsFresh, TableFollows, Known, WildTransient
<1> QED BY <1>1, <1>2, <1>3, <1>7, <1>8, NothingLeft

LEMMA InvRefusalLength ==
  ASSUME FlightInv, RefusalLength
  PROVE  FlightInv'
<1>1. /\ cq # <<>> /\ Head(cq).op = "refused" /\ cq' = Tail(cq)
      /\ info' = [info EXCEPT !.length = 1] /\ refusing' = TRUE
      /\ UNCHANGED <<workList, work, taskDone, table, writeFlag, sendMrs, qp,
                     broken, granted>>
  BY DEF RefusalLength, Handles, app, entry, server
<1>2. Awaited(Head(cq))
  BY <1>1 DEF Awaited
<1>3. /\ qp' \in Seq(Requests) /\ cq' \in Seq(Completions)
      /\ 1 \in Positions /\ Flight[1] = Head(cq)
      /\ AwaitedBy(Head(cq)) /\ Len(Flight') = 0 /\ Positions' = {}
  BY <1>1, <1>2, Handled
<1>4. work.at = "malloc" /\ info.addr \in {Null, Wild}
  BY <1>1, <1>3 DEF AwaitedBy, FlightInv, FlagsFresh
<1>5. granted = Known
  BY <1>1, <1>3, <1>4 DEF FlightInv, TableFollows
<1>6. /\ info' \in [length : {0, 1}, addr : Objects \cup {Null, Wild}]
      /\ info'.length = 1
      /\ info'.addr = info.addr
  BY <1>1 DEF FlightInv, Types
<1>7. Types'
  BY <1>1, <1>3, <1>6 DEF FlightInv, Types
<1>8. FlagsFresh' /\ TableFollows'
  BY <1>1, <1>3, <1>4, <1>5, <1>6 DEF FlightInv, FlagsFresh, TableFollows, Known, WildTransient
<1> QED BY <1>1, <1>2, <1>3, <1>7, <1>8, NothingLeft

LEMMA InvFreedArrives ==
  ASSUME FlightInv, FreedArrives
  PROVE  FlightInv'
<1>1. /\ cq # <<>> /\ Head(cq).op = "freed" /\ cq' = Tail(cq)
      /\ info' = [info EXCEPT !.addr = Null]
      /\ UNCHANGED <<workList, work, taskDone, table, writeFlag, refusing, sendMrs, qp,
                     broken, granted>>
  BY DEF FreedArrives, Handles, app, entry, server
<1>2. Awaited(Head(cq))
  BY <1>1 DEF Awaited
<1>3. /\ qp' \in Seq(Requests) /\ cq' \in Seq(Completions)
      /\ 1 \in Positions /\ Flight[1] = Head(cq)
      /\ AwaitedBy(Head(cq)) /\ Len(Flight') = 0 /\ Positions' = {}
  BY <1>1, <1>2, Handled
<1>4. work.at = "free"
  BY <1>1, <1>3 DEF AwaitedBy
<1>5. granted = Known /\ work.job.obj \notin Known
  BY <1>1, <1>3, <1>4 DEF FlightInv, TableFollows
<1>6. info' \in [length : {0, 1}, addr : Objects \cup {Null, Wild}] /\ info'.addr = Null
  BY <1>1 DEF FlightInv, Types
<1>7. Types'
  BY <1>1, <1>3, <1>6 DEF FlightInv, Types
<1>8. FlagsFresh' /\ TableFollows'
  BY <1>1, <1>3, <1>4, <1>5, <1>6 DEF FlightInv, FlagsFresh, TableFollows, Known, WildTransient
<1> QED BY <1>1, <1>2, <1>3, <1>7, <1>8, NothingLeft

\* The second store of a refusal finds the work thread in the malloc, and
\* nothing under way, or gone on, with what it took for a grant in the table.
LEMMA InvRefusalAddr ==
  ASSUME FlightInv, RefusalAddr
  PROVE  FlightInv'
<1>1. /\ refusing /\ refusing' = FALSE /\ table' = Known
      /\ info' = IF work.at = "malloc" /\ info.length # 0
                 THEN [info EXCEPT !.addr = Null] ELSE info
      /\ UNCHANGED <<workList, work, taskDone, writeFlag, sendMrs, qp, cq,
                     broken, granted>>
  BY DEF RefusalAddr, app, net, server
<1>2. Flight' = Flight /\ Positions' = Positions
  BY <1>1 DEF Flight, Positions
<1>3. Known' = Known /\ WildTransient'
  BY <1>1 DEF Known, WildTransient
<1>4. /\ info' \in [length : {0, 1}, addr : Objects \cup {Null, Wild}]
      /\ info'.length = info.length
      /\ info'.addr = IF work.at = "malloc" /\ info.length = 1 THEN Null ELSE info.addr
  BY <1>1 DEF FlightInv, Types
<1>5. Types'
  BY <1>1, <1>4 DEF FlightInv, Types, Known
<1>6. AwaitedLast'
  <2>1. ASSUME NEW i \in Positions, Awaited(Flight[i])
        PROVE  i = Len(Flight) /\ AwaitedBy(Flight[i])'
    <3>1. i = Len(Flight) /\ AwaitedBy(Flight[i])
      BY <2>1 DEF FlightInv, AwaitedLast
    <3> QED BY <1>1, <1>2, <1>4, <3>1 DEF AwaitedBy
  <2> QED BY <1>2, <2>1 DEF AwaitedLast, Awaited
<1>7. OneRequestEach' /\ ListApart' /\ ReadApart'
  BY <1>1, <1>2 DEF FlightInv, OneRequestEach, ListApart, ReadApart, IsAccess
<1>8. FlagsFresh'
  BY <1>1, <1>2, <1>3, <1>4 DEF FlightInv, FlagsFresh
<1>9. FlagsExact'
  BY <1>1, <1>2, FlagsKept
<1>10. TableFollows'
  <2>1. ASSUME work.at = "malloc", info.length = 1 PROVE Known = granted
    BY <1>1, <2>1 DEF FlightInv, TableFollows
  <2> QED BY <1>1, <1>2, <1>3, <1>4, <2>1 DEF FlightInv, TableFollows
<1> QED BY <1>5, <1>6, <1>7, <1>8, <1>9, <1>10 DEF FlightInv

\* The flag and the buffer of the write that is over are given back, and no
\* other request has them.
LEMMA InvWriteCompletes ==
  ASSUME FlightInv, WriteCompletes
  PROVE  FlightInv'
<1>1. /\ cq # <<>> /\ Head(cq).op = "write" /\ cq' = Tail(cq)
      /\ sendMrs' = sendMrs \cup ({Head(cq).buf} \cap Buffers)
      /\ writeFlag' = writeFlag \ {Head(cq).obj}
      /\ taskDone' = (taskDone \/ Head(cq).buf \in Apps)
      /\ UNCHANGED <<workList, work, info, table, refusing, qp, broken, granted>>
  BY DEF WriteCompletes, Handles, Release, app, server
<1>2. /\ qp' \in Seq(Requests) /\ cq' \in Seq(Completions)
      /\ Head(cq) \in Completions
      /\ 1 \in Positions /\ Flight[1] = Head(cq)
      /\ Len(Flight) \in Nat /\ Len(Flight') = Len(Flight) - 1
      /\ \A i \in Positions' : i + 1 \in Positions /\ Flight'[i] = Flight[i + 1]
      /\ Awaited(Head(cq)) =>
           AwaitedBy(Head(cq)) /\ Len(Flight') = 0 /\ Positions' = {}
  BY <1>1, Handled
<1>3. Types'
  BY <1>1, <1>2 DEF FlightInv, Types
<1>4. AwaitedLast'
  <2> SUFFICES ASSUME NEW i \in Positions', Awaited(Flight'[i])
               PROVE  i = Len(Flight') /\ AwaitedBy(Flight[i])'
    BY DEF AwaitedLast, Awaited
  <2>1. taskDone' = taskDone
    BY <1>1, <1>2 DEF Awaited, FlightInv, Types
  <2>2. i + 1 = Len(Flight) /\ AwaitedBy(Flight[i + 1])
    BY <1>2 DEF FlightInv, AwaitedLast
  <2>3. i = Len(Flight')
    BY <1>2, <2>2 DEF Positions
  <2> QED BY <1>1, <1>2, <2>1, <2>2, <2>3 DEF AwaitedBy
<1>5. FlagsFresh'
  <2>1. Len(Flight) # 0
    BY <1>2 DEF Positions
  <2>2. taskDone' => work'.at \in {"read", "write"}
    BY <1>1, <1>2 DEF Awaited, AwaitedBy, FlightInv, FlagsFresh
  <2> QED BY <1>1, <2>1, <2>2 DEF FlightInv, FlagsFresh, WildTransient
<1>6. OneRequestEach'
  <2> SUFFICES ASSUME NEW i \in Positions', NEW j \in Positions',
                      IsAccess(Flight'[i]), IsAccess(Flight'[j]),
                      Flight'[i].buf = Flight'[j].buf
               PROVE  i = j
    BY DEF OneRequestEach, IsAccess
  <2>1. i + 1 = j + 1
    BY <1>2 DEF FlightInv, OneRequestEach
  <2> QED BY <2>1 DEF Positions
<1>7. ASSUME NEW i \in Positions', IsAccess(Flight'[i])
      PROVE  Flight'[i].buf # Head(cq).buf
  <2>1. i + 1 # 1 /\ IsAccess(Flight[1]) /\ IsAccess(Flight[i + 1])
    BY <1>1, <1>2, <1>7 DEF IsAccess, Positions
  <2> QED BY <1>2, <2>1 DEF FlightInv, OneRequestEach
<1>8. ListApart'
  <2> SUFFICES ASSUME NEW i \in Positions', IsAccess(Flight'[i])
               PROVE  Flight'[i].buf \notin sendMrs'
    BY DEF ListApart, IsAccess
  <2> QED BY <1>1, <1>2, <1>7 DEF FlightInv, ListApart
<1>9. ReadApart'
  <2> SUFFICES ASSUME work.at = "read"
               PROVE  /\ work.buf \notin sendMrs'
                      /\ \A i \in Positions' :
                           IsAccess(Flight'[i]) /\ Flight'[i].buf = work.buf
                             => Flight'[i].op = "read"
    BY <1>1 DEF ReadApart, IsAccess
  <2>1. work.buf # Head(cq).buf
    BY <1>1, <1>2 DEF FlightInv, ReadApart, IsAccess
  <2> QED BY <1>1, <1>2, <2>1 DEF FlightInv, ReadApart
<1>10. FlagsExact'
  <2> SUFFICES ASSUME ~ broken, NEW o \in Objects
               PROVE  /\ o \in writeFlag' <=> \E i \in Positions' : IsWrite(i, o)'
                      /\ \A i, j \in Positions' :
                           IsWrite(i, o)' /\ IsWrite(j, o)' => i = j
    BY <1>1 DEF FlagsExact
  <2>1. /\ o \in writeFlag <=> \E i \in Positions : IsWrite(i, o)
        /\ \A i, j \in Positions : IsWrite(i, o) /\ IsWrite(j, o) => i = j
    BY DEF FlightInv, FlagsExact
  <2>2. \A i \in Positions' : i + 1 \in Positions /\ (IsWrite(i, o)' <=> IsWrite(i + 1, o))
    BY <1>2 DEF IsWrite
  <2>3. \A i \in Positions : i = 1 \/ \E j \in Positions' : i = j + 1
    BY <1>2 DEF Positions
  <2>4. IsWrite(1, o) <=> o = Head(cq).obj
    BY <1>1, <1>2 DEF IsWrite
  <2>5. \A i \in Positions' : i \in Nat /\ i # 0
    BY <1>2 DEF Positions
  <2>6. \A i, j \in Positions' : IsWrite(i, o)' /\ IsWrite(j, o)' => i = j
    BY <2>1, <2>2, <2>5
  <2>7. CASE o = Head(cq).obj
    <3>1. \A i \in Positions' : ~ IsWrite(i, o)'
      BY <1>2, <2>1, <2>2, <2>4, <2>5, <2>7
    <3> QED BY <1>1, <2>6, <2>7, <3>1
  <2>8. CASE o # Head(cq).obj
    BY <1>1, <2>1, <2>2, <2>3, <2>4, <2>6, <2>8
  <2> QED BY <2>7, <2>8
<1>11. TableFollows'
  <2>1. \A i \in Positions' : \E j \in Positions : Flight'[i] = Flight[j]
    BY <1>2
  <2> QED BY <1>1, <2>1 DEF FlightInv, TableFollows, Known
<1> QED BY <1>3, <1>4, <1>5, <1>6, <1>8, <1>9, <1>10, <1>11 DEF FlightInv
-----------------------------------------------------------------------------
(***************************************************************************)
(* The invariant, and what follows from it.                                *)
(***************************************************************************)
\* The callers, the timer and the poll connection leave alone what it is
\* about.
LEMMA InvOthers ==
  ASSUME FlightInv,
         \/ \E job \in Jobs : Call(job)
         \/ PollTimer \/ PollServer \/ EpollPoll
  PROVE  FlightInv'
<1>1. /\ workList' = workList \/ \E job \in Jobs \cup {Poll} : workList' = Append(workList, job)
      /\ UNCHANGED <<work, info, taskDone, table, writeFlag, refusing, sendMrs, qp, cq,
                     broken, granted>>
  <2>1. CASE \E job \in Jobs : Call(job)
    BY <2>1 DEF Call, entry, net, server
  <2>2. CASE PollTimer
    BY <2>2 DEF PollTimer, entry, net, server
  <2>3. CASE ServeApply
    BY <2>3 DEF ServeApply, app, entry
  <2>4. CASE ServeClear
    BY <2>4 DEF ServeClear, app, entry
  <2>5. CASE PollAnswered
    BY <2>5 DEF PollAnswered, app, server
  <2> QED BY <2>1, <2>2, <2>3, <2>4, <2>5 DEF PollServer, EpollPoll
<1>2. workList' \in Seq(Jobs \cup {Poll})
  <2>1. workList \in Seq(Jobs \cup {Poll})
    BY DEF FlightInv, Types
  <2> QED BY <1>1, <2>1, AppendProperties
<1>3. Types'
  BY <1>1, <1>2 DEF FlightInv, Types
<1>4. Flight' = Flight
  BY <1>1 DEF Flight
<1> QED BY <1>1, <1>3, <1>4, Kept

LEMMA InvInit == Init => FlightInv
<1> SUFFICES ASSUME Init PROVE FlightInv
  OBVIOUS
<1>1. Types
  BY EmptySeq DEF Init, Types, Works, Idle, NoInfo
<1>2. Len(Flight) = 0
  BY <1>1, FlightParts DEF Init, Types
<1>3. Positions = {}
  BY <1>2 DEF Positions
<1>4. AwaitedLast /\ OneRequestEach /\ ListApart
  BY <1>3 DEF AwaitedLast, OneRequestEach, ListApart
<1>5. FlagsFresh /\ ReadApart /\ TableFollows
  BY DEF Init, Idle, FlagsFresh, ReadApart, TableFollows, Known, WildTransient
<1>6. FlagsExact
  BY <1>3 DEF Init, FlagsExact
<1> QED BY <1>1, <1>4, <1>5, <1>6 DEF FlightInv

LEMMA InvNext ==
  ASSUME FlightInv, [Next]_vars
  PROVE  FlightInv'
<1>1. CASE Client
  BY <1>1, InvTake, InvNotFound, InvPostMalloc, InvMallocDone, InvPostFree, InvFreeDone,
     InvPostRead, InvReadDone, InvPostWrite, InvWriteDone, InvPostPoll, InvPollDone
     DEF Client
<1>2. CASE Connection
  BY <1>2, InvExecRead, InvExecWrite, InvAccessError, InvServeMalloc, InvServeFree
     DEF Connection
<1>3. CASE Epoll
  BY <1>3, InvWriteCompletes, InvReadCompletes, InvGrantArrives, InvRefusalLength,
     InvRefusalAddr, InvFreedArrives DEF Epoll
<1>4. CASE \/ \E job \in Jobs : Call(job)
           \/ PollTimer \/ PollServer \/ EpollPoll
  BY <1>4, InvOthers
<1>5. CASE UNCHANGED vars
  <2>1. UNCHANGED <<workList, work, info, taskDone, table, writeFlag, refusing, sendMrs,
                    qp, cq, broken, granted>>
    BY <1>5 DEF vars, app, entry, net, server
  <2>2. Types' /\ Flight' = Flight
    BY <2>1 DEF FlightInv, Types, Flight
  <2> QED BY <2>1, <2>2, Kept
<1> QED BY <1>1, <1>2, <1>3, <1>4, <1>5 DEF Next

LEMMA InvAlways == Spec => []FlightInv
<1>1. Init => FlightInv
  BY InvInit
<1>2. FlightInv /\ [Next]_vars => FlightInv'
  BY InvNext
<1> QED BY <1>1, <1>2, PTL DEF Spec

\* For any number of callers, objects and buffers, while the queue pair
\* works: write_flag is set exactly while a write of the object is under way,
\* and never two are, so the test of dhmp_write_work_handler suffices.
THEOREM ClientWriteFlagExact == Spec => []WriteFlagExact
<1>1. FlightInv => WriteFlagExact
  <2> SUFFICES ASSUME FlightInv PROVE WriteFlagExact
    OBVIOUS
  <2>1. DOMAIN Flight = Positions
    BY FlightParts DEF FlightInv, Types, Positions
  <2> QED BY <2>1 DEF FlightInv, FlagsExact, IsWrite, WriteFlagExact, WritesOf
<1> QED BY <1>1, InvAlways, PTL

\* A registered buffer is never in send_mr_list and in use, nor used by two
\* requests: dhmp_get_mr_from_send_list and the handlers that give back lose
\* and share none.
THEOREM ClientBuffersApart == Spec => []BuffersApart
<1>1. FlightInv => BuffersApart
  <2> SUFFICES ASSUME FlightInv PROVE BuffersApart
    OBVIOUS
  <2>1. /\ qp \in Seq(Requests) /\ cq \in Seq(Completions)
        /\ DOMAIN Flight = Positions
    BY FlightParts DEF FlightInv, Types, Positions
  <2>2. \A i, j \in {k \in DOMAIN Flight : IsAccess(Flight[k])} :
          Flight[i].buf = Flight[j].buf => i = j
    BY <2>1 DEF FlightInv, OneRequestEach
  <2>3. ASSUME NEW r \in ToSet(qp) \cup ToSet(cq), IsAccess(r)
        PROVE  r.buf \notin sendMrs
    <3>1. \E i \in Positions : Flight[i] = r
      <4>1. CASE r \in ToSet(cq)
        <5>1. PICK i \in 1 .. Len(cq) : cq[i] = r
          BY <2>1, <4>1 DEF ToSet
        <5>2. i \in Positions /\ Flight[i] = r
          BY <2>1, <5>1, FlightParts DEF Positions
        <5> QED BY <5>2
      <4>2. CASE r \in ToSet(qp)
        <5>1. PICK i \in 1 .. Len(qp) : qp[i] = r
          BY <2>1, <4>2 DEF ToSet
        <5>2. Len(cq) + i \in Positions /\ Flight[Len(cq) + i] = r
          BY <2>1, <5>1, FlightParts DEF Positions
        <5> QED BY <5>2
      <4> QED BY <4>1, <4>2
    <3> QED BY <2>3, <3>1 DEF FlightInv, ListApart
  <2>4. sendMrs \cap InUse = {}
    BY <2>3 DEF FlightInv, ReadApart, InUse, IsAccess
  <2> QED BY <2>2, <2>4 DEF BuffersApart
<1> QED BY <1>1, InvAlways, PTL

\* Whenever the work thread rests, addr_info_ht holds exactly the regions
\* the server has granted to the client.
THEOREM ClientTableIsGranted == Spec => []TableIsGranted
<1>1. FlightInv => TableIsGranted
  BY DEF FlightInv, FlagsFresh, TableFollows, TableIsGranted, Idle, WildTransient
<1> QED BY <1>1, InvAlways, PTL

(***************************************************************************)
(* For any number of threads, objects and buffers: a read returns what the *)
(* latest write before it wrote, if the object has not been moved since    *)
(* (ReadsBack), and type correctness (TypeOK).                             *)
(*                                                                         *)
(* Where an object lives for the client (inDram) and for the server need   *)
(* not agree for that: it is enough that nothing changes the place the     *)
(* requests name without the object being moved, that a write waits in a   *)
(* buffer nobody else writes, and that the buffer of a read is filled by   *)
(* this read alone.  The last two are FlightInv.                           *)
(***************************************************************************)
Contents == Values \cup {Junk}
Kinds == {"apply", "clear"}
PollMessages ==
  {None} \cup [at : {"server"}, obj : Objects, type : Kinds]
    \cup [at : {"client"}, obj : Objects, type : Kinds, ok : BOOLEAN]

\* The types of the rest of the state.
RestTypes ==
  /\ waiting \subseteq Apps
  /\ writeFlag \subseteq Objects /\ inDram \subseteq Known
  /\ granted \subseteq Objects /\ copies \subseteq Objects
  /\ buf \in [Buffers \cup Apps -> Contents]
  /\ nvm \in [Objects -> Contents] /\ dram \in [Objects -> Contents]
  /\ latest \in [Objects -> [val : Contents, moved : BOOLEAN]]
  /\ pollMsg \in PollMessages

\* A message of a poll cycle is about an object of the table, and an answer
\* that changes where the client looks for it is about one that was moved.
PollTurn == pollMsg # None =>
  /\ work.at = "poll" /\ pollMsg.obj \in Known
  /\ pollMsg.type = "apply" => pollMsg.obj \notin inDram
  /\ (pollMsg.at = "client" /\ (pollMsg.type = "apply" => pollMsg.ok)) =>
       latest[pollMsg.obj].moved

\* What was not moved since it was written is granted, and in the table
\* unless it is being freed.
UnmovedKnown == \A o \in Objects : ~ latest[o].moved =>
  o \in granted /\ (work.at # "free" => o \in Known)

\* What a malloc is answered with is new to the table.
NewToTable ==
  /\ \A r \in ToSet(cq) : r.op = "granted" => r.obj \notin Known
  /\ work.at = "malloc" => info.addr \notin Known

\* A read under way is for the work of the work thread.
ReadsOwn == \A r \in ToSet(qp) \cup ToSet(cq) :
  r.op = "read" => r.obj = work.job.obj

\* What the place has that the client's requests name.
Content(o) == IF o \in inDram THEN dram[o] ELSE nvm[o]
IsAccessOf(r, o) == IsAccess(r) /\ r.obj = o
IsWriteOf(r, o) == r.op = "write" /\ r.obj = o
Tracked(o) == o \in Known /\ ~ latest[o].moved

\* The value last written is in the buffer of the write while this waits to
\* be executed, and then in the place of the object.
ValueKept(o) == Tracked(o) =>
  /\ \A r \in ToSet(qp) : IsAccessOf(r, o) => (r.dram <=> o \in inDram)
  /\ \A r \in ToSet(qp) : IsWriteOf(r, o) => buf[r.buf] = latest[o].val
  /\ (\A r \in ToSet(qp) : ~ IsWriteOf(r, o)) => (Content(o) = latest[o].val)
ValuesKept == ~ broken => \A o \in Objects : ValueKept(o)

\* What a read that was executed has brought.
Fetched ==
  /\ \A r \in ToSet(cq) : (r.op = "read" /\ ~ latest[r.obj].moved) =>
       buf[r.buf] = latest[r.obj].val
  /\ (work.at = "read" /\ taskDone /\ ~ latest[work.job.obj].moved) =>
       buf[work.buf] = latest[work.job.obj].val

ReadsInv ==
  /\ RestTypes /\ PollTurn /\ UnmovedKnown /\ NewToTable /\ ReadsOwn
  /\ ValuesKept /\ Fetched
-----------------------------------------------------------------------------
(***************************************************************************)
(* What is under way, as sets.                                             *)
(***************************************************************************)
LEMMA SetOfAppend ==
  ASSUME NEW S, NEW s \in Seq(S), NEW e \in S
  PROVE  ToSet(Append(s, e)) = ToSet(s) \cup {e}
<1>1. /\ Len(s) \in Nat
      /\ Append(s, e) \in Seq(S)
      /\ Len(Append(s, e)) = Len(s) + 1
      /\ \A i \in 1 .. Len(s) : Append(s, e)[i] = s[i]
      /\ Append(s, e)[Len(s) + 1] = e
  BY AppendProperties, LenProperties
<1>2. DOMAIN s = 1 .. Len(s) /\ DOMAIN Append(s, e) = 1 .. Len(s) + 1
  BY <1>1, LenProperties
<1>3. \A x : x \in ToSet(Append(s, e)) <=> x \in ToSet(s) \/ x = e
  BY <1>1, <1>2 DEF ToSet
<1> QED BY <1>3

LEMMA SetOfTail ==
  ASSUME NEW S, NEW s \in Seq(S), s # <<>>
  PROVE  /\ Head(s) \in S
         /\ ToSet(s) = ToSet(Tail(s)) \cup {Head(s)}
<1>1. /\ Len(s) \in Nat /\ Len(s) > 0 /\ Head(s) = s[1]
      /\ Tail(s) \in Seq(S)
      /\ Len(Tail(s)) = Len(s) - 1
      /\ \A i \in 1 .. Len(Tail(s)) : Tail(s)[i] = s[i + 1]
  BY HeadTailProperties, LenProperties, EmptySeq
<1>2. DOMAIN s = 1 .. Len(s) /\ DOMAIN Tail(s) = 1 .. Len(s) - 1
  BY <1>1, LenProperties
<1>3. ASSUME NEW i \in 1 .. Len(s), i # 1
      PROVE  \E j \in 1 .. Len(s) - 1 : Tail(s)[j] = s[i]
  <2>1. i - 1 \in 1 .. Len(s) - 1 /\ (i - 1) + 1 = i
    BY <1>1, <1>3
  <2>2. Tail(s)[i - 1] = s[i]
    BY <1>1, <2>1
  <2> QED BY <2>1, <2>2
<1>4. \A j \in 1 .. Len(s) - 1 : j + 1 \in 1 .. Len(s) /\ Tail(s)[j] = s[j + 1]
  BY <1>1
<1>5. ASSUME NEW x \in ToSet(s) PROVE x \in ToSet(Tail(s)) \cup {Head(s)}
  <2>1. PICK i \in 1 .. Len(s) : s[i] = x
    BY <1>2 DEF ToSet
  <2>2. CASE i = 1
    BY <1>1, <2>1, <2>2
  <2>3. CASE i # 1
    <3>1. PICK j \in 1 .. Len(s) - 1 : Tail(s)[j] = x
      BY <1>3, <2>1, <2>3
    <3> QED BY <1>2, <3>1 DEF ToSet
  <2> QED BY <2>2, <2>3
<1>6. ASSUME NEW x \in ToSet(Tail(s)) \cup {Head(s)} PROVE x \in ToSet(s)
  BY <1>1, <1>2, <1>4 DEF ToSet
<1>7. Head(s) \in S
  BY <1>1, ElementOfSeq
<1> QED BY <1>5, <1>6, <1>7

LEMMA SetOfEmpty == ToSet(<<>>) = {}
BY DEF ToSet

UnderWay == ToSet(qp) \cup ToSet(cq)

\* What is under way has a place in Flight.
LEMMA PlaceInFlight ==
  ASSUME FlightInv
  PROVE  /\ ToSet(qp) \subseteq Requests /\ ToSet(cq) \subseteq Completions
         /\ Len(cq) \in Nat
         /\ \A r \in ToSet(cq) : \E i \in Positions : i <= Len(cq) /\ Flight[i] = r
         /\ \A r \in ToSet(qp) : \E i \in Positions : i > Len(cq) /\ Flight[i] = r
<1>1. qp \in Seq(Requests) /\ cq \in Seq(Completions)
  BY DEF FlightInv, Types
<1>2. DOMAIN qp = 1 .. Len(qp) /\ DOMAIN cq = 1 .. Len(cq)
  BY <1>1, LenProperties
<1>3. ToSet(qp) \subseteq Requests /\ ToSet(cq) \subseteq Completions
  BY <1>1, <1>2, ElementOfSeq DEF ToSet
<1>4. ASSUME NEW r \in ToSet(cq)
      PROVE  \E i \in Positions : i <= Len(cq) /\ Flight[i] = r
  <2>1. PICK i \in 1 .. Len(cq) : cq[i] = r
    BY <1>2 DEF ToSet
  <2>2. i \in Positions /\ Flight[i] = cq[i]
    BY <1>1, <2>1, FlightParts DEF Positions
  <2> QED BY <2>1, <2>2
<1>5. ASSUME NEW r \in ToSet(qp)
      PROVE  \E i \in Positions : i > Len(cq) /\ Flight[i] = r
  <2>1. PICK i \in 1 .. Len(qp) : qp[i] = r
    BY <1>2 DEF ToSet
  <2>2. Len(cq) \in Nat /\ Len(qp) \in Nat /\ Len(Flight) = Len(cq) + Len(qp)
    BY <1>1, FlightParts
  <2>3. Len(cq) + i \in Positions /\ Len(cq) + i > Len(cq)
        /\ (Len(cq) + i) - Len(cq) = i
    BY <2>1, <2>2 DEF Positions
  <2>4. Flight[Len(cq) + i] = qp[i]
    BY <1>1, <2>2, <2>3, FlightParts
  <2> QED BY <2>1, <2>3, <2>4
<1> QED BY <1>1, <1>3, <1>4, <1>5, FlightParts

\* What the work thread spins for is the only thing of its kind.
LEMMA AwaitedIs ==
  ASSUME FlightInv
  PROVE  /\ \A r \in UnderWay : Awaited(r) => AwaitedBy(r)
         /\ SmallWrites => \A r \in UnderWay : ~ Awaited(r)
BY PlaceInFlight DEF FlightInv, AwaitedLast, UnderWay, SmallWrites

\* A request the work thread spins for is the last of qp, and its completion
\* the last of all.
LEMMA AwaitedRequest ==
  ASSUME FlightInv, qp # <<>>, Awaited(Head(qp))
  PROVE  /\ ToSet(Tail(qp)) = {}
         /\ \A r \in ToSet(cq) : ~ Awaited(r)
<1>1. qp \in Seq(Requests) /\ cq \in Seq(Completions)
  BY DEF FlightInv, Types
<1>2. /\ Len(cq) \in Nat /\ Len(qp) \in Nat /\ Len(Flight) = Len(cq) + Len(qp)
      /\ Len(qp) > 0 /\ Head(qp) = qp[1]
  BY <1>1, FlightParts, EmptySeq
<1>3. Len(cq) + 1 \in Positions /\ Flight[Len(cq) + 1] = Head(qp)
  <2>1. Len(cq) + 1 \in Positions /\ (Len(cq) + 1) - Len(cq) = 1
    BY <1>2 DEF Positions
  <2> QED BY <1>1, <1>2, <2>1, FlightParts
<1>4. Len(Flight) = Len(cq) + 1
  BY <1>3 DEF FlightInv, AwaitedLast
<1>5. Len(qp) = 1
  BY <1>2, <1>4
<1>6. Tail(qp) \in Seq(Requests) /\ Len(Tail(qp)) = 0
  BY <1>1, <1>2, <1>5, HeadTailProperties
<1>7. Tail(qp) = <<>>
  BY <1>6, EmptySeq
<1>8. ASSUME NEW r \in ToSet(cq) PROVE ~ Awaited(r)
  <2>1. PICK i \in Positions : i <= Len(cq) /\ Flight[i] = r
    BY PlaceInFlight
  <2>2. i # Len(Flight)
    BY <1>2, <1>4, <2>1 DEF Positions
  <2> QED BY <2>1, <2>2 DEF FlightInv, AwaitedLast
<1> QED BY <1>7, <1>8, SetOfEmpty

\* Two requests under way use two buffers, and two writes are of two objects.
LEMMA RequestsDiffer ==
  ASSUME FlightInv, ~ broken, qp # <<>>, Head(qp).op = "write",
         NEW r \in ToSet(Tail(qp)), r.op = "write"
  PROVE  r.obj # Head(qp).obj
<1>1. qp \in Seq(Requests) /\ cq \in Seq(Completions)
  BY DEF FlightInv, Types
<1>2. /\ Len(cq) \in Nat /\ Len(qp) \in Nat /\ Len(Flight) = Len(cq) + Len(qp)
      /\ Len(qp) > 0 /\ Head(qp) = qp[1]
      /\ Tail(qp) \in Seq(Requests) /\ Len(Tail(qp)) = Len(qp) - 1
      /\ \A i \in 1 .. Len(Tail(qp)) : Tail(qp)[i] = qp[i + 1]
  BY <1>1, FlightParts, EmptySeq, HeadTailProperties
<1>3. DOMAIN Tail(qp) = 1 .. Len(qp) - 1
  BY <1>2, LenProperties
<1>4. PICK i \in 1 .. Len(qp) - 1 : Tail(qp)[i] = r
  BY <1>3 DEF ToSet
<1>5. qp[i + 1] = r
  BY <1>2, <1>4
<1>6. /\ Len(cq) + 1 \in Positions /\ (Len(cq) + 1) - Len(cq) = 1
      /\ Len(cq) + (i + 1) \in Positions /\ (Len(cq) + (i + 1)) - Len(cq) = i + 1
      /\ ~ (Len(cq) + 1 <= Len(cq)) /\ ~ (Len(cq) + (i + 1) <= Len(cq))
      /\ Len(cq) + 1 # Len(cq) + (i + 1)
  BY <1>2, <1>4 DEF Positions
<1>7. Flight[Len(cq) + 1] = Head(qp) /\ Flight[Len(cq) + (i + 1)] = r
  BY <1>1, <1>2, <1>5, <1>6, FlightParts
<1>8. Head(qp) \in Requests /\ Head(qp).obj \in Objects
  <2>1. Head(qp) \in Requests
    BY <1>1, SetOfTail
  <2>2. Head(qp) \in Messages
    BY <2>1 DEF Messages
  <2> QED BY <2>1, <2>2, MessageKinds DEF IsAccess
<1> QED BY <1>6, <1>7, <1>8 DEF FlightInv, FlagsExact, IsWrite

\* Posting adds a request, unless the queue pair is broken.
LEMMA SetOfPost ==
  ASSUME FlightInv, NEW r \in Requests, Post(r)
  PROVE  ToSet(qp') = IF broken THEN ToSet(qp) ELSE ToSet(qp) \cup {r}
<1>1. qp \in Seq(Requests)
  BY DEF FlightInv, Types
<1>2. ToSet(Append(qp, r)) = ToSet(qp) \cup {r}
  BY <1>1, SetOfAppend
<1>3. qp' = IF broken THEN qp ELSE Append(qp, r)
  BY DEF Post
<1>4. CASE broken
  BY <1>3, <1>4
<1>5. CASE ~ broken
  BY <1>2, <1>3, <1>5
<1> QED BY <1>4, <1>5

\* Executing moves it to the completions.
LEMMA SetOfCompletes ==
  ASSUME FlightInv, qp # <<>>, NEW c \in Completions, Completes(c)
  PROVE  /\ Head(qp) \in Requests
         /\ ToSet(qp) = ToSet(qp') \cup {Head(qp)}
         /\ ToSet(cq') = ToSet(cq) \cup {c}
BY SetOfAppend, SetOfTail DEF FlightInv, Types, Completes
-----------------------------------------------------------------------------
(***************************************************************************)
(* Types.                                                                  *)
(***************************************************************************)
LEMMA JobStarted ==
  ASSUME FlightInv, work.at = "start"
  PROVE  /\ work = [at |-> "start", job |-> work.job]
         /\ work.job.kind = "read" => work.job \in ReadJob
         /\ work.job.kind = "write" => work.job \in WriteJob
         /\ work.job.kind = "free" => work.job \in FreeJob
         /\ work.job.kind \in {"read", "write", "free"} => work.job.obj \in Objects
<1>1. /\ work = [at |-> "start", job |-> work.job]
      /\ work.job \in Jobs \cup {Poll}
  BY WorkKinds DEF FlightInv, Types
<1>2. /\ work.job.kind = "read" => work.job \in ReadJob
      /\ work.job.kind = "write" => work.job \in WriteJob
      /\ work.job.kind = "free" => work.job \in FreeJob
  BY <1>1, JobKinds
<1> QED BY <1>1, <1>2 DEF ReadJob, WriteJob, FreeJob

LEMMA RequestOf ==
  ASSUME NEW r \in Requests \cup Completions, IsAccess(r)
  PROVE  r.obj \in Objects /\ r.buf \in Buffers \cup Apps
<1>1. r \in Messages
  BY DEF Messages
<1> QED BY <1>1, MessageKinds

LEMMA PollKinds ==
  ASSUME pollMsg \in PollMessages
  PROVE  /\ pollMsg = None <=> pollMsg.at = "none"
         /\ pollMsg # None => pollMsg.at \in {"server", "client"}
         /\ pollMsg # None => pollMsg.obj \in Objects /\ pollMsg.type \in Kinds
         /\ pollMsg.at = "client" => pollMsg.ok \in BOOLEAN
BY DEF PollMessages, None

LEMMA RestKept ==
  ASSUME RestTypes, waiting' \subseteq Apps,
         UNCHANGED <<Known, writeFlag, inDram, granted, copies, buf, nvm, dram,
                     latest, pollMsg>>
  PROVE  RestTypes'
BY DEF RestTypes

LEMMA DestroyTypes ==
  ASSUME RestTypes, NEW o \in Objects, Destroy(o)
  PROVE  /\ nvm' \in [Objects -> Contents] /\ dram' \in [Objects -> Contents]
         /\ copies' \subseteq Objects
         /\ \A p \in Objects \ {o} : nvm'[p] = nvm[p] /\ dram'[p] = dram[p]
<1>1. /\ nvm' = IF o \in copies THEN [nvm EXCEPT ![o] = dram[o]] ELSE nvm
      /\ dram' = [dram EXCEPT ![o] = Junk]
      /\ copies' = copies \ {o}
  BY DEF Destroy
<1>2. /\ nvm \in [Objects -> Contents] /\ dram \in [Objects -> Contents]
      /\ copies \subseteq Objects
  BY DEF RestTypes
<1>3. dram[o] \in Contents /\ Junk \in Contents
  BY <1>2 DEF Contents
<1>4. nvm' \in [Objects -> Contents] /\ \A p \in Objects \ {o} : nvm'[p] = nvm[p]
  BY <1>1, <1>2, <1>3
<1>5. dram' \in [Objects -> Contents] /\ \A p \in Objects \ {o} : dram'[p] = dram[p]
  BY <1>1, <1>2, <1>3
<1> QED BY <1>1, <1>2, <1>4, <1>5

\* The history of one object changes.
LEMMA LatestTypes ==
  ASSUME RestTypes, NEW o \in Objects, NEW v \in Contents
  PROVE  /\ [latest EXCEPT ![o] = [val |-> v, moved |-> FALSE]]
              \in [Objects -> [val : Contents, moved : BOOLEAN]]
         /\ [latest EXCEPT ![o] = [val |-> v, moved |-> TRUE]]
              \in [Objects -> [val : Contents, moved : BOOLEAN]]
         /\ [latest EXCEPT ![o].moved = TRUE]
              \in [Objects -> [val : Contents, moved : BOOLEAN]]
BY DEF RestTypes

\* The steps that only end or begin a work, or carry a message.
QuietStep ==
  \/ PollTimer \/ Take \/ NotFound \/ PostMalloc \/ FreeDone
  \/ PostRead \/ ReadDone \/ WriteDone \/ PollDone
  \/ AccessError \/ ReadCompletes \/ GrantArrives \/ RefusalLength
  \/ RefusalAddr \/ FreedArrives \/ UNCHANGED vars
  \/ \E job \in Jobs : Call(job)

LEMMA QuietTypes ==
  ASSUME RestTypes, QuietStep
  PROVE  RestTypes'
<1>1. waiting \subseteq Apps
  BY DEF RestTypes
<1>2. CASE \E job \in Jobs : Call(job)
  <2>1. PICK job \in Jobs : Call(job)
    BY <1>2
  <2>2. job.app \in Apps
    BY DEF Jobs
  <2>3. waiting' = waiting \cup {job.app}
    BY <2>1 DEF Call
  <2>4. UNCHANGED <<Known, writeFlag, inDram, granted, copies, buf, nvm, dram,
                    latest, pollMsg>>
    BY <2>1 DEF Call, entry, net, server, Known
  <2> QED BY <1>1, <2>2, <2>3, <2>4, RestKept
<1>3. CASE PollTimer \/ Take \/ UNCHANGED vars
  BY <1>1, <1>3, RestKept DEF PollTimer, Take, vars, app, entry, net, server, Known
<1>4. CASE NotFound \/ FreeDone \/ ReadDone \/ WriteDone
  BY <1>1, <1>4, RestKept
     DEF NotFound, FreeDone, ReadDone, WriteDone, Done, entry, net, server, Known
<1>5. CASE PostMalloc \/ PostRead \/ PollDone
  BY <1>1, <1>5, RestKept DEF PostMalloc, PostRead, PollDone, app, entry, net, server, Known
<1>6. CASE \/ AccessError \/ ReadCompletes \/ GrantArrives \/ RefusalLength
           \/ RefusalAddr \/ FreedArrives
  BY <1>1, <1>6, RestKept
     DEF AccessError, ReadCompletes, GrantArrives, RefusalLength, RefusalAddr, Known,
         FreedArrives, app, entry, net, server
<1> QED BY <1>2, <1>3, <1>4, <1>5, <1>6 DEF QuietStep

LEMMA TableTypes ==
  ASSUME FlightInv, RestTypes, MallocDone \/ PostFree
  PROVE  RestTypes'
<1>1. /\ waiting' \subseteq waiting /\ writeFlag' \subseteq writeFlag
      /\ UNCHANGED <<granted, copies, buf, nvm, dram, latest, pollMsg>>
  BY DEF MallocDone, PostFree, Done, app, entry, net, server
<1>2. inDram \subseteq Known
  BY DEF RestTypes
<1>3. inDram' \subseteq Known'
  BY <1>2 DEF MallocDone, PostFree, Unlink, entry, Known
<1> QED BY <1>1, <1>3 DEF RestTypes

LEMMA WriteTypes ==
  ASSUME FlightInv, RestTypes, PostWrite
  PROVE  RestTypes'
<1>1. work.job \in WriteJob
  BY JobStarted DEF PostWrite, Starts
<1>2. work.job.obj \in Objects /\ work.job.val \in Contents
  BY <1>1 DEF WriteJob, Contents
<1>3. PICK b \in Buffers \cup Apps : buf' = [buf EXCEPT ![b] = work.job.val]
  BY DEF PostWrite
<1>4. buf' \in [Buffers \cup Apps -> Contents]
  BY <1>2, <1>3 DEF RestTypes
<1>5. /\ writeFlag' = writeFlag \cup {work.job.obj}
      /\ latest' = [latest EXCEPT ![work.job.obj] = [val |-> work.job.val, moved |-> FALSE]]
      /\ waiting' \subseteq waiting
      /\ UNCHANGED <<Known, inDram, pollMsg, granted, copies, nvm, dram>>
  BY DEF PostWrite, Done, server, Known
<1>6. latest' \in [Objects -> [val : Contents, moved : BOOLEAN]]
  BY <1>2, <1>5, LatestTypes
<1> QED BY <1>2, <1>4, <1>5, <1>6 DEF RestTypes

LEMMA ExecTypes ==
  ASSUME FlightInv, RestTypes, ExecRead \/ ExecWrite
  PROVE  RestTypes'
<1>1. qp # <<>> /\ IsAccess(Head(qp))
  BY DEF ExecRead, ExecWrite, Runs, IsAccess
<1>2. Head(qp) \in Requests
  BY <1>1, SetOfTail DEF FlightInv, Types
<1>3. Head(qp).obj \in Objects /\ Head(qp).buf \in Buffers \cup Apps
  BY <1>1, <1>2, RequestOf
<1>4. /\ buf \in [Buffers \cup Apps -> Contents]
      /\ nvm \in [Objects -> Contents] /\ dram \in [Objects -> Contents]
  BY DEF RestTypes
<1>5. /\ buf[Head(qp).buf] \in Contents
      /\ nvm[Head(qp).obj] \in Contents /\ dram[Head(qp).obj] \in Contents
  BY <1>3, <1>4
<1>6. UNCHANGED <<waiting, Known, writeFlag, inDram, granted, copies, latest, pollMsg>>
  BY DEF ExecRead, ExecWrite, app, entry, server, Known
<1>7. CASE ExecRead
  <2>1. PICK v \in Contents : buf' = [buf EXCEPT ![Head(qp).buf] = v]
    BY <1>5, <1>7 DEF ExecRead
  <2>2. UNCHANGED <<nvm, dram>>
    BY <1>7 DEF ExecRead, server
  <2>3. buf' \in [Buffers \cup Apps -> Contents]
    BY <1>4, <2>1
  <2> QED BY <1>6, <2>2, <2>3 DEF RestTypes
<1>8. CASE ExecWrite
  <2>1. buf' = buf
    BY <1>8 DEF ExecWrite
  <2>2. \/ dram' = [dram EXCEPT ![Head(qp).obj] = buf[Head(qp).buf]] /\ nvm' = nvm
        \/ nvm' = [nvm EXCEPT ![Head(qp).obj] = buf[Head(qp).buf]] /\ dram' = dram
    BY <1>8 DEF ExecWrite
  <2>3. nvm' \in [Objects -> Contents] /\ dram' \in [Objects -> Contents]
    BY <1>4, <1>5, <2>2
  <2> QED BY <1>6, <2>1, <2>3 DEF RestTypes
<1> QED BY <1>7, <1>8

LEMMA ServeTypes ==
  ASSUME FlightInv, RestTypes, ServeMalloc \/ ServeFree
  PROVE  RestTypes'
<1>1. UNCHANGED <<waiting, Known, writeFlag, inDram, buf, pollMsg>>
  BY DEF ServeMalloc, ServeFree, app, entry, Known
<1>2. CASE ServeMalloc
  <2>1. UNCHANGED <<dram, copies, latest>>
    BY <1>2 DEF ServeMalloc
  <2>2. \/ \E o \in Objects : granted' = granted \cup {o} /\ nvm' = [nvm EXCEPT ![o] = Junk]
        \/ UNCHANGED <<granted, nvm>>
    BY <1>2 DEF ServeMalloc
  <2>3. granted' \subseteq Objects /\ nvm' \in [Objects -> Contents]
    BY <2>2 DEF RestTypes, Contents
  <2> QED BY <1>1, <2>1, <2>3 DEF RestTypes
<1>3. CASE ServeFree
  <2>1. PICK o \in Objects :
          /\ Destroy(o)
          /\ granted' = granted \ {o}
          /\ latest' = [latest EXCEPT ![o] = [val |-> Junk, moved |-> TRUE]]
    <3>1. qp # <<>> /\ Head(qp).op = "free"
      BY <1>3 DEF ServeFree, Runs
    <3>2. Head(qp) \in Requests
      BY <3>1, SetOfTail DEF FlightInv, Types
    <3>3. Head(qp).obj \in Objects
      BY <3>1, <3>2 DEF Requests
    <3> QED BY <1>3, <3>3 DEF ServeFree
  <2>2. Junk \in Contents
    BY DEF Contents
  <2>3. latest' \in [Objects -> [val : Contents, moved : BOOLEAN]]
    BY <2>1, <2>2, LatestTypes
  <2>4. /\ nvm' \in [Objects -> Contents] /\ dram' \in [Objects -> Contents]
        /\ copies' \subseteq Objects
    BY <2>1, DestroyTypes
  <2> QED BY <1>1, <2>1, <2>3, <2>4 DEF RestTypes
<1> QED BY <1>2, <1>3

LEMMA PollTypes ==
  ASSUME FlightInv, RestTypes, PollTurn,
         PostPoll \/ ServeApply \/ ServeClear \/ PollAnswered
  PROVE  RestTypes'
<1>1. UNCHANGED <<waiting, Known, writeFlag, granted, buf>>
  BY DEF PostPoll, ServeApply, ServeClear, PollAnswered, app, entry, server, Known
<1>2. Known \subseteq Objects
  BY DEF FlightInv, Types, Known
<1>3. CASE PostPoll
  <2>1. UNCHANGED <<inDram, copies, nvm, dram, latest>>
    BY <1>3 DEF PostPoll, entry, server
  <2>2. PICK o \in Objects, k \in Kinds :
          pollMsg' = [at |-> "server", obj |-> o, type |-> k]
    BY <1>2, <1>3 DEF PostPoll, Kinds
  <2>3. pollMsg' \in PollMessages
    BY <2>2 DEF PollMessages
  <2> QED BY <1>1, <2>1, <2>3 DEF RestTypes
<1>4. CASE ServeApply \/ ServeClear
  <2>1. pollMsg.at = "server"
    BY <1>4 DEF ServeApply, ServeClear
  <2>2. pollMsg.obj \in Objects /\ pollMsg.type \in Kinds
    BY <2>1, PollKinds DEF RestTypes, None
  <2>3. PICK ok \in BOOLEAN :
          pollMsg' = [at |-> "client", obj |-> pollMsg.obj, type |-> pollMsg.type, ok |-> ok]
    BY <1>4 DEF ServeApply, ServeClear, Answer
  <2>4. pollMsg' \in PollMessages
    BY <2>2, <2>3 DEF PollMessages
  <2>5. latest' = latest \/ latest' = [latest EXCEPT ![pollMsg.obj].moved = TRUE]
    BY <1>4 DEF ServeApply, ServeClear, Moved
  <2>6. latest' \in [Objects -> [val : Contents, moved : BOOLEAN]]
    <3> PICK o \in Objects : o = pollMsg.obj
      BY <2>2
    <3>1. latest \in [Objects -> [val : Contents, moved : BOOLEAN]]
      BY DEF RestTypes
    <3>2. [latest[o] EXCEPT !.moved = TRUE] \in [val : Contents, moved : BOOLEAN]
      BY <3>1
    <3> QED BY <2>5, <3>1, <3>2
  <2>7. /\ nvm' \in [Objects -> Contents] /\ dram' \in [Objects -> Contents]
        /\ copies' \subseteq Objects
    <3>1. CASE ServeApply
      <4>1. /\ nvm' = nvm
            /\ copies' = copies \cup {pollMsg.obj} \/ copies' = copies
            /\ dram' = [dram EXCEPT ![pollMsg.obj] = Junk] \/ dram' = dram
        BY <3>1 DEF ServeApply
      <4> QED BY <2>2, <4>1 DEF RestTypes, Contents
    <3>2. CASE ServeClear
      <4>1. Destroy(pollMsg.obj)
        BY <3>2 DEF ServeClear
      <4>2. \A o \in Objects : Destroy(o) =>
              /\ nvm' \in [Objects -> Contents] /\ dram' \in [Objects -> Contents]
              /\ copies' \subseteq Objects
        BY DestroyTypes
      <4> QED BY <2>2, <4>1, <4>2
    <3> QED BY <1>4, <3>1, <3>2
  <2>8. inDram' = inDram
    BY <1>4 DEF ServeApply, ServeClear, entry
  <2> QED BY <1>1, <2>4, <2>6, <2>7, <2>8 DEF RestTypes
<1>5. CASE PollAnswered
  <2>1. pollMsg.obj \in Known
    BY <1>5, PollKinds DEF PollAnswered, PollTurn, RestTypes, None
  <2>2. inDram' \subseteq Known'
    BY <1>1, <1>5, <2>1 DEF PollAnswered, RestTypes
  <2>3. pollMsg' \in PollMessages
    BY <1>5 DEF PollAnswered, PollMessages
  <2>4. UNCHANGED <<copies, nvm, dram, latest>>
    BY <1>5 DEF PollAnswered, server
  <2> QED BY <1>1, <2>2, <2>3, <2>4 DEF RestTypes
<1> QED BY <1>3, <1>4, <1>5

LEMMA NextRestTypes ==
  ASSUME FlightInv, RestTypes, PollTurn, [Next]_vars
  PROVE  RestTypes'
<1>1. CASE WriteCompletes
  <2>1. /\ writeFlag' \subseteq writeFlag
        /\ UNCHANGED <<waiting, Known, inDram, granted, copies, buf, nvm, dram,
                       latest, pollMsg>>
    BY <1>1 DEF WriteCompletes, app, server, Known
  <2> QED BY <2>1 DEF RestTypes
<1> QED
  BY <1>1, QuietTypes, TableTypes, WriteTypes, ExecTypes, ServeTypes, PollTypes
     DEF Next, Client, Connection, PollServer, Epoll, EpollPoll, QuietStep
-----------------------------------------------------------------------------
(***************************************************************************)
(* Which step writes what.                                                 *)
(***************************************************************************)
LEMMA Writers ==
  ASSUME [Next]_vars
  PROVE  /\ work' = work \/ Client
         /\ Known' = Known \/ MallocDone \/ PostFree
         /\ inDram' = inDram \/ MallocDone \/ PostFree \/ PollAnswered
         /\ latest' = latest \/ PostWrite \/ ServeFree \/ ServeApply \/ ServeClear
         /\ granted' = granted \/ ServeMalloc \/ ServeFree
         /\ buf' = buf \/ PostWrite \/ ExecRead
         /\ UNCHANGED <<nvm, dram>>
              \/ ExecWrite \/ ServeMalloc \/ ServeFree \/ ServeApply \/ ServeClear
         /\ pollMsg' = pollMsg \/ PostPoll \/ ServeApply \/ ServeClear \/ PollAnswered
         /\ qp' = qp \/ PostMalloc \/ PostFree \/ PostRead \/ PostWrite \/ Connection
         /\ cq' = cq \/ Connection \/ Epoll
         /\ broken' = broken \/ AccessError
<1> USE DEF vars, app, entry, net, server, Known
<1>1. CASE UNCHANGED vars \/ PollTimer \/ \E job \in Jobs : Call(job)
  BY <1>1 DEF PollTimer, Call
<1>2. CASE Client
  <2>1. CASE \/ Take \/ NotFound \/ FreeDone \/ ReadDone \/ WriteDone \/ PollDone
    BY <1>2, <2>1 DEF Take, NotFound, FreeDone, ReadDone, WriteDone, PollDone
  <2>2. CASE PostMalloc \/ PostFree \/ PostRead
    BY <1>2, <2>2 DEF PostMalloc, PostFree, PostRead, Known
  <2>3. CASE PostWrite
    BY <1>2, <2>3 DEF PostWrite
  <2>4. CASE MallocDone \/ PostPoll
    BY <1>2, <2>4 DEF MallocDone, PostPoll, Known
  <2> QED BY <1>2, <2>1, <2>2, <2>3, <2>4 DEF Client
<1>3. CASE Connection
  <2>1. CASE ExecRead \/ ExecWrite \/ AccessError
    BY <1>3, <2>1 DEF ExecRead, ExecWrite, AccessError
  <2>2. CASE ServeMalloc \/ ServeFree
    BY <1>3, <2>2 DEF ServeMalloc, ServeFree
  <2> QED BY <1>3, <2>1, <2>2 DEF Connection
<1>4. CASE PollServer \/ EpollPoll
  BY <1>4 DEF PollServer, EpollPoll, ServeApply, ServeClear, PollAnswered
<1>5. CASE Epoll
  BY <1>5 DEF Epoll, WriteCompletes, ReadCompletes, GrantArrives, RefusalLength,
              RefusalAddr, FreedArrives
<1> QED BY <1>1, <1>2, <1>3, <1>4, <1>5 DEF Next

\* The work thread leaves a wait in one way only.
LEMMA WorkSteps ==
  ASSUME FlightInv, [Next]_vars
  PROVE  /\ work.at = "poll" => work' = work \/ PollDone
         /\ work.at = "read" => work' = work \/ ReadDone
         /\ work.at = "free" => work' = work \/ FreeDone
         /\ work.at = "malloc" => work' = work \/ MallocDone
         /\ work'.at = "malloc" => work' = work \/ PostMalloc
         /\ work'.at = "read" => work' = work \/ PostRead
<1>1. CASE work' = work
  BY <1>1
<1>2. CASE Client
  <2>1. CASE Take
    BY <2>1 DEF Take, Idle
  <2>2. CASE NotFound \/ MallocDone \/ FreeDone \/ ReadDone \/ WriteDone \/ PollDone
    BY <2>2 DEF NotFound, MallocDone, FreeDone, ReadDone, WriteDone, PollDone, Done,
                Starts, Idle
  <2>3. CASE PostMalloc \/ PostFree \/ PostPoll
    <3>1. /\ work.at = "start" /\ work = [at |-> "start", job |-> work.job]
          /\ \/ PostMalloc /\ work' = [work EXCEPT !.at = "malloc"]
             \/ work' = [work EXCEPT !.at = "free"]
             \/ work' = [work EXCEPT !.at = "poll"]
      BY <2>3, JobStarted DEF PostMalloc, PostFree, PostPoll, Starts
    <3>2. (PostMalloc /\ work'.at = "malloc") \/ work'.at \in {"free", "poll"}
      BY <3>1
    <3> QED BY <3>1, <3>2
  <2>4. CASE PostRead
    BY <2>4 DEF PostRead, Starts
  <2>5. CASE PostWrite
    <3>1. work.at = "start" /\ work = [at |-> "start", job |-> work.job]
      BY <2>5, JobStarted DEF PostWrite, Starts
    <3>2. work' = [work EXCEPT !.at = "write"] \/ work' = Idle
      BY <2>5 DEF PostWrite, Done
    <3>3. work'.at \in {"write", "idle"}
      BY <3>1, <3>2 DEF Idle
    <3> QED BY <3>1, <3>3
  <2> QED BY <1>2, <2>1, <2>2, <2>3, <2>4, <2>5 DEF Client
<1> QED BY <1>1, <1>2, Writers

\* What joins the requests and the completions.
LEMMA QueueSteps ==
  ASSUME FlightInv, [Next]_vars
  PROVE  /\ \A r \in ToSet(qp') : \/ r \in ToSet(qp)
                                  \/ r.op = "read" => PostRead /\ r.obj = work.job.obj
         /\ \A r \in ToSet(cq') :
              \/ r \in ToSet(cq)
              \/ (ExecRead \/ ExecWrite) /\ r = Head(qp) /\ r \in ToSet(qp)
              \/ ServeMalloc /\ r.op = "granted" /\ r.obj \in Objects \ granted
              \/ r.op \in {"refused", "freed"}
<1>1. qp \in Seq(Requests) /\ cq \in Seq(Completions)
  BY DEF FlightInv, Types
<1>2. CASE Epoll
  <2>1. RefusalAddr \/ (cq # <<>> /\ cq' = Tail(cq))
    BY <1>2 DEF Epoll, WriteCompletes, ReadCompletes, GrantArrives, RefusalLength,
                FreedArrives, Handles
  <2>2. qp' = qp /\ (RefusalAddr => cq' = cq)
    BY <1>2 DEF Epoll, WriteCompletes, ReadCompletes, GrantArrives, RefusalLength,
                FreedArrives, RefusalAddr, net
  <2> QED BY <1>1, <2>1, <2>2, SetOfTail
<1>3. CASE ExecRead \/ ExecWrite
  <2>1. qp # <<>> /\ IsAccess(Head(qp)) /\ Completes(Head(qp))
    BY <1>3 DEF ExecRead, ExecWrite, Runs, IsAccess
  <2>2. Head(qp) \in Requests
    BY <1>1, <2>1, SetOfTail
  <2>3. Head(qp) \in Completions
    BY <2>1, <2>2 DEF IsAccess, Requests, Completions
  <2>4. \A c \in Completions : Completes(c) =>
          /\ ToSet(qp) = ToSet(qp') \cup {Head(qp)}
          /\ ToSet(cq') = ToSet(cq) \cup {c}
    BY <2>1, SetOfCompletes
  <2>5. /\ ToSet(qp) = ToSet(qp') \cup {Head(qp)}
        /\ ToSet(cq') = ToSet(cq) \cup {Head(qp)}
    BY <2>1, <2>3, <2>4
  <2> QED BY <1>3, <2>5
<1>4. CASE AccessError
  BY <1>4, SetOfEmpty DEF AccessError
<1>5. CASE ServeMalloc \/ ServeFree
  <2>1. PICK c \in Completions :
          /\ qp # <<>> /\ Completes(c)
          /\ \/ ServeMalloc /\ c.op = "granted" /\ c.obj \in Objects \ granted
             \/ c.op \in {"refused", "freed"}
    <3>1. ASSUME NEW o \in Objects
          PROVE  [op |-> "granted", obj |-> o] \in Completions
      BY DEF Completions
    <3>2. [op |-> "refused"] \in Completions /\ [op |-> "freed"] \in Completions
      BY DEF Completions
    <3>3. CASE ServeMalloc
      <4>1. CASE \E o \in Objects \ granted : Completes([op |-> "granted", obj |-> o])
        <5>1. PICK o \in Objects \ granted : Completes([op |-> "granted", obj |-> o])
          BY <4>1
        <5> QED BY <3>1, <3>3, <5>1 DEF ServeMalloc, Runs
      <4>2. CASE Completes([op |-> "refused"])
        BY <3>2, <3>3, <4>2 DEF ServeMalloc, Runs
      <4> QED BY <3>3, <4>1, <4>2 DEF ServeMalloc
    <3>4. CASE ServeFree
      BY <3>2, <3>4 DEF ServeFree, Runs
    <3> QED BY <1>5, <3>3, <3>4
  <2>2. /\ ToSet(qp) = ToSet(qp') \cup {Head(qp)}
        /\ ToSet(cq') = ToSet(cq) \cup {c}
    BY <2>1, SetOfCompletes
  <2> QED BY <2>1, <2>2
<1>6. CASE PostMalloc \/ PostFree \/ PostRead \/ PostWrite
  <2>1. cq' = cq
    BY <1>6 DEF PostMalloc, PostFree, PostRead, PostWrite
  <2>2. PICK r \in Requests : Post(r) /\ (r.op = "read" => PostRead /\ r.obj = work.job.obj)
    <3>1. CASE PostMalloc
      <4>1. [op |-> "malloc"] \in Requests
        BY DEF Requests
      <4> QED BY <3>1, <4>1 DEF PostMalloc
    <3>2. CASE PostFree
      <4>1. work.job.obj \in Objects
        BY <3>2, JobStarted DEF PostFree, Starts
      <4>2. [op |-> "free", obj |-> work.job.obj] \in Requests
        BY <4>1 DEF Requests
      <4> QED BY <3>2, <4>2 DEF PostFree
    <3>3. CASE PostRead \/ PostWrite
      <4>1. work.job.obj \in Objects
        BY <3>3, JobStarted DEF PostRead, PostWrite, Starts
      <4>2. PICK b \in Buffers \cup Apps, k \in {"read", "write"} :
              /\ Post([op |-> k, obj |-> work.job.obj, buf |-> b,
                       dram |-> work.job.obj \in inDram])
              /\ k = "read" => PostRead
        BY <3>3 DEF PostRead, PostWrite
      <4>3. [op |-> k, obj |-> work.job.obj, buf |-> b,
             dram |-> work.job.obj \in inDram] \in Requests
        BY <4>1 DEF Requests
      <4> QED BY <4>2, <4>3
    <3> QED BY <1>6, <3>1, <3>2, <3>3
  <2>3. ToSet(qp') = IF broken THEN ToSet(qp) ELSE ToSet(qp) \cup {r}
    BY <2>2, SetOfPost
  <2> QED BY <2>1, <2>2, <2>3
<1>7. CASE qp' = qp /\ cq' = cq
  BY <1>7
<1> QED
  BY <1>2, <1>3, <1>4, <1>5, <1>6, <1>7, Writers DEF Connection
-----------------------------------------------------------------------------
(***************************************************************************)
(* Poll cycles, and what is in the table.                                  *)
(***************************************************************************)
LEMMA NextPollTurn ==
  ASSUME FlightInv, RestTypes, PollTurn, [Next]_vars
  PROVE  PollTurn'
<1> SUFFICES ASSUME pollMsg' # None PROVE PollTurn'
  BY DEF PollTurn
<1>1. CASE PostPoll
  <2>1. work.at = "start" /\ work = [at |-> "start", job |-> work.job]
    BY <1>1, JobStarted DEF PostPoll, Starts
  <2>2. work'.at = "poll"
    BY <1>1, <2>1 DEF PostPoll
  <2>3. PICK o \in Known :
          pollMsg' = [at |-> "server", obj |-> o,
                      type |-> IF o \in inDram THEN "clear" ELSE "apply"]
    BY <1>1 DEF PostPoll
  <2>4. Known' = Known /\ inDram' = inDram
    BY <1>1 DEF PostPoll, entry, Known
  <2> QED BY <2>2, <2>3, <2>4 DEF PollTurn
<1>2. CASE ServeApply \/ ServeClear
  <2>1. pollMsg.at = "server" /\ pollMsg # None
    <3>1. pollMsg.at = "server"
      BY <1>2 DEF ServeApply, ServeClear
    <3> QED BY <3>1, PollKinds DEF RestTypes
  <2>2. pollMsg.obj \in Objects
    BY <2>1, PollKinds DEF RestTypes
  <2>3. UNCHANGED <<work, Known, inDram>>
    BY <1>2 DEF ServeApply, ServeClear, entry, Known
  <2>4. PICK ok \in BOOLEAN :
          /\ pollMsg' = [at |-> "client", obj |-> pollMsg.obj, type |-> pollMsg.type,
                         ok |-> ok]
          /\ (pollMsg.type = "apply" => ok) => Moved(pollMsg.obj)
    BY <1>2 DEF ServeApply, ServeClear, Answer
  <2>5. Moved(pollMsg.obj) => latest'[pollMsg.obj].moved
    BY <2>2 DEF Moved, RestTypes
  <2>6. /\ pollMsg'.at = "client" /\ pollMsg'.obj = pollMsg.obj
        /\ pollMsg'.type = pollMsg.type /\ pollMsg'.ok = ok
    BY <2>4
  <2> QED BY <2>1, <2>3, <2>4, <2>5, <2>6 DEF PollTurn
<1>3. CASE PollAnswered
  BY <1>3 DEF PollAnswered
<1>4. CASE pollMsg' = pollMsg /\ ~ (PostPoll \/ ServeApply \/ ServeClear \/ PollAnswered)
  <2>1. pollMsg # None /\ work.at = "poll" /\ pollMsg.obj \in Known
    BY <1>4 DEF PollTurn
  <2>2. work' = work
    BY <2>1, WorkSteps DEF PollDone
  <2>3. Known' = Known /\ inDram' = inDram
    BY <1>4, <2>1, Writers DEF MallocDone, PostFree, Starts
  <2>4. pollMsg.obj \in Objects
    BY <1>4, <2>1, PollKinds DEF RestTypes
  <2>5. latest[pollMsg.obj].moved => latest'[pollMsg.obj].moved
    <3>1. latest' = latest \/ ServeFree
      BY <1>4, <2>1, Writers DEF PostWrite, Starts
    <3>2. CASE ServeFree
      BY <2>4, <3>2 DEF ServeFree, RestTypes
    <3> QED BY <3>1, <3>2
  <2> QED BY <1>4, <2>1, <2>2, <2>3, <2>5 DEF PollTurn
<1> QED BY <1>1, <1>2, <1>3, <1>4, Writers

\* A move leaves the history of the others alone.
LEMMA MovesOnly ==
  ASSUME RestTypes, ServeApply \/ ServeClear, NEW o \in Objects
  PROVE  latest'[o].moved \/ latest'[o] = latest[o]
<1>1. pollMsg.at = "server"
  BY DEF ServeApply, ServeClear
<1>2. pollMsg.obj \in Objects
  BY <1>1, PollKinds DEF RestTypes, None
<1>3. latest' = latest \/ latest' = [latest EXCEPT ![pollMsg.obj].moved = TRUE]
  BY DEF ServeApply, ServeClear, Moved
<1> QED BY <1>2, <1>3 DEF RestTypes

LEMMA NextUnmovedKnown ==
  ASSUME FlightInv, RestTypes, UnmovedKnown, [Next]_vars
  PROVE  UnmovedKnown'
<1> SUFFICES ASSUME NEW o \in Objects, ~ latest'[o].moved
             PROVE  o \in granted' /\ (work'.at # "free" => o \in Known')
  BY DEF UnmovedKnown
<1>1. CASE PostWrite
  <2>1. work.at = "start" /\ work.job.obj \in Objects /\ work.job.obj \in Known
    <3>1. work.at = "start" /\ work.job.obj \in Objects /\ work.job.obj \in table
      BY <1>1, JobStarted DEF PostWrite, Starts, WriteIdle
    <3> QED BY <3>1, ClientAssumption DEF Known
  <2>2. Known = granted
    BY <2>1, NothingAwaited
  <2>3. o = work.job.obj \/ latest'[o] = latest[o]
    BY <1>1, <2>1 DEF PostWrite, RestTypes
  <2>4. Known' = Known /\ granted' = granted
    BY <1>1 DEF PostWrite, server, Known
  <2> QED BY <2>1, <2>2, <2>3, <2>4 DEF UnmovedKnown
<1>2. CASE ServeFree
  <2>1. o # Head(qp).obj /\ latest'[o] = latest[o]
    BY <1>2 DEF ServeFree, RestTypes
  <2>2. granted' = granted \ {Head(qp).obj} /\ UNCHANGED <<work, Known>>
    BY <1>2 DEF ServeFree, entry, Known
  <2> QED BY <2>1, <2>2 DEF UnmovedKnown
<1>3. CASE ServeApply \/ ServeClear
  <2>1. latest'[o] = latest[o]
    BY <1>3, MovesOnly
  <2>2. UNCHANGED <<work, Known, granted>>
    BY <1>3 DEF ServeApply, ServeClear, entry, Known
  <2> QED BY <2>1, <2>2 DEF UnmovedKnown
<1>4. CASE latest' = latest /\ ~ (ServeFree \/ PostWrite)
  <2>1. o \in granted /\ (work.at # "free" => o \in Known)
    BY <1>4 DEF UnmovedKnown
  <2>2. o \in granted'
    <3>1. granted' = granted \/ ServeMalloc
      BY <1>4, Writers
    <3> QED BY <2>1, <3>1 DEF ServeMalloc
  <2>3. CASE PostFree
    <3>1. work.at = "start" /\ work = [at |-> "start", job |-> work.job]
      BY <2>3, JobStarted DEF PostFree, Starts
    <3>2. work'.at = "free"
      BY <2>3, <3>1 DEF PostFree
    <3> QED BY <2>2, <3>2
  <2>4. CASE MallocDone
    <3>1. work.at # "free" /\ Known \subseteq Known'
      BY <2>4 DEF MallocDone, entry, Known
    <3> QED BY <2>1, <2>2, <3>1
  <2>5. CASE Known' = Known /\ work.at # "free"
    BY <2>1, <2>2, <2>5
  <2>6. CASE Known' = Known /\ work.at = "free"
    <3>1. work' = work \/ FreeDone
      BY <2>6, WorkSteps
    <3>2. FreeDone => Known = granted
      BY <2>6 DEF FreeDone, FlightInv, TableFollows
    <3> QED BY <2>1, <2>2, <2>6, <3>1, <3>2
  <2> QED BY <2>3, <2>4, <2>5, <2>6, Writers
<1> QED BY <1>1, <1>2, <1>3, <1>4, Writers

LEMMA NextNewToTable ==
  ASSUME FlightInv, NewToTable, [Next]_vars
  PROVE  NewToTable'
<1>1. Known \subseteq Objects
  BY DEF FlightInv, Types, Known
<1>2. ASSUME NEW r \in ToSet(cq'), r.op = "granted"
      PROVE  r.obj \notin Known'
  <2>1. CASE r \in ToSet(cq)
    <3>1. r.obj \notin Known
      BY <1>2, <2>1 DEF NewToTable
    <3>2. AwaitedBy(r)
      BY <1>2, <2>1, AwaitedIs DEF UnderWay, Awaited
    <3>3. ~ MallocDone
      BY <1>2, <3>2 DEF AwaitedBy, MallocDone
    <3>4. Known' \subseteq Known
      BY <3>3, Writers DEF PostFree, Unlink, Known
    <3> QED BY <3>1, <3>4
  <2>2. CASE ServeMalloc /\ r.obj \in Objects \ granted
    <3>1. qp # <<>> /\ Head(qp).op = "malloc" /\ Known' = Known
      BY <2>2 DEF ServeMalloc, Runs, entry, Known
    <3>2. Head(qp) \in UnderWay
      BY <3>1, SetOfTail DEF UnderWay, FlightInv, Types
    <3>3. work.at = "malloc"
      BY <3>1, <3>2, AwaitedIs DEF Awaited, AwaitedBy
    <3>4. PICK i \in Positions : Flight[i] = Head(qp)
      BY <3>2, PlaceInFlight DEF UnderWay
    <3>5. Known = granted
      BY <3>1, <3>3, <3>4 DEF FlightInv, TableFollows
    <3> QED BY <2>2, <3>1, <3>5
  <2>3. CASE (ExecRead \/ ExecWrite) /\ r = Head(qp)
    BY <1>2, <2>3 DEF ExecRead, ExecWrite, Runs
  <2> QED BY <1>2, <2>1, <2>2, <2>3, QueueSteps
<1>3. ASSUME work'.at = "malloc" PROVE info'.addr \notin Known'
  <2>1. CASE PostMalloc
    <3>1. info'.addr \in {Null, Wild} /\ Known' = Known
      BY <2>1 DEF PostMalloc, entry, Known
    <3> QED BY <1>1, <3>1, ClientAssumption DEF Known
  <2>2. CASE work' = work /\ ~ Client
    <3>1. Known' = Known
      BY <2>2, Writers DEF Client
    <3>2. info.addr \notin Known
      BY <1>3, <2>2 DEF NewToTable
    <3>3. CASE info' = info
      BY <3>1, <3>2, <3>3
    <3>4. CASE GrantArrives
      <4>1. cq # <<>> /\ Head(cq).op = "granted" /\ info'.addr = Head(cq).obj
        BY <3>4 DEF GrantArrives, Handles
      <4>2. Head(cq) \in ToSet(cq)
        BY <4>1, SetOfTail DEF FlightInv, Types
      <4> QED BY <3>1, <4>1, <4>2 DEF NewToTable
    <3>5. CASE RefusalLength
      <4>1. info'.addr = info.addr
        BY <3>5 DEF RefusalLength, FlightInv, Types
      <4> QED BY <3>1, <3>2, <4>1
    <3>6. CASE RefusalAddr \/ FreedArrives
      <4>1. info'.addr = Null \/ info' = info
        BY <3>6 DEF RefusalAddr, FreedArrives, FlightInv, Types
      <4> QED BY <1>1, <3>1, <3>2, <4>1, ClientAssumption
    <3>7. info' = info \/ Epoll
      BY <2>2 DEF Next, Call, PollTimer, Connection, ExecRead, ExecWrite, AccessError,
                  ServeMalloc, ServeFree, PollServer, ServeApply, ServeClear, EpollPoll,
                  PollAnswered, vars
    <3>8. Epoll => info' = info \/ GrantArrives \/ RefusalLength \/ RefusalAddr \/ FreedArrives
      BY DEF Epoll, WriteCompletes, ReadCompletes
    <3> QED BY <3>3, <3>4, <3>5, <3>6, <3>7, <3>8
  <2>3. CASE work' = work /\ Client
    <3>1. work.at = "malloc"
      BY <1>3, <2>3
    <3>2. CASE MallocDone
      BY <1>3, <3>2 DEF MallocDone, Done, Idle
    <3>3. CASE ~ MallocDone
      BY <2>3, <3>1, <3>3 DEF Client, Take, NotFound, PostMalloc, PostFree, FreeDone, PostRead,
         ReadDone, PostWrite, WriteDone, PostPoll, PollDone, Starts, Idle
    <3> QED BY <3>2, <3>3
  <2> QED BY <1>3, <2>1, <2>2, <2>3, WorkSteps
<1> QED BY <1>2, <1>3 DEF NewToTable

LEMMA NextReadsOwn ==
  ASSUME FlightInv, ReadsOwn, [Next]_vars
  PROVE  ReadsOwn'
<1>1. ASSUME NEW r \in UnderWay, r.op = "read"
      PROVE  r.obj = work'.job.obj
  <2>1. work.at = "read" /\ ~ taskDone
    BY <1>1, AwaitedIs DEF Awaited, AwaitedBy
  <2>2. work' = work
    BY <2>1, WorkSteps DEF ReadDone
  <2> QED BY <1>1, <2>2 DEF ReadsOwn, UnderWay
<1>2. PostRead => work'.job = work.job
  BY DEF PostRead
<1>3. ASSUME NEW r \in ToSet(qp') \cup ToSet(cq'), r.op = "read"
      PROVE  r \in UnderWay \/ (PostRead /\ r.obj = work.job.obj)
  BY <1>3, QueueSteps DEF UnderWay
<1>4. \A r \in ToSet(qp') \cup ToSet(cq') : r.op = "read" => r.obj = work'.job.obj
  BY <1>1, <1>2, <1>3
<1> QED BY <1>4 DEF ReadsOwn
-----------------------------------------------------------------------------
(***************************************************************************)
(* The value last written.                                                 *)
(***************************************************************************)
\* A step that touches neither the place of o nor the requests about it.
LEMMA SameObject ==
  ASSUME NEW o \in Objects, ValueKept(o), Tracked(o),
         latest'[o] = latest[o], o \in inDram' <=> o \in inDram,
         nvm'[o] = nvm[o], dram'[o] = dram[o],
         \A r : IsAccessOf(r, o) => (r \in ToSet(qp') <=> r \in ToSet(qp)),
         \A r \in ToSet(qp) : IsWriteOf(r, o) => buf'[r.buf] = buf[r.buf]
  PROVE  ValueKept(o)'
<1>1. \A r : IsWriteOf(r, o) => IsAccessOf(r, o)
  BY DEF IsWriteOf, IsAccessOf, IsAccess
<1>2. Content(o)' = Content(o)
  BY DEF Content
<1>3. /\ \A r \in ToSet(qp) : IsAccessOf(r, o) => (r.dram <=> o \in inDram)
      /\ \A r \in ToSet(qp) : IsWriteOf(r, o) => buf[r.buf] = latest[o].val
      /\ (\A r \in ToSet(qp) : ~ IsWriteOf(r, o)) => (Content(o) = latest[o].val)
  BY DEF ValueKept
<1>4. \A r \in ToSet(qp') : IsAccessOf(r, o) => (r.dram <=> o \in inDram')
  BY <1>3
<1>5. \A r \in ToSet(qp') : IsWriteOf(r, o) => buf'[r.buf] = latest'[o].val
  BY <1>1, <1>3
<1>6. (\A r \in ToSet(qp') : ~ IsWriteOf(r, o)) => (Content(o)' = latest'[o].val)
  BY <1>1, <1>2, <1>3
<1> QED BY <1>4, <1>5, <1>6 DEF ValueKept, IsWriteOf, IsAccessOf, IsAccess

\* The invariants of this module but the one about values.
Frame ==
  FlightInv /\ RestTypes /\ PollTurn /\ UnmovedKnown /\ NewToTable /\ ReadsOwn

LEMMA MallocDoneValue ==
  ASSUME Frame, MallocDone, NEW o \in Objects, ValueKept(o), Tracked(o)'
  PROVE  ValueKept(o)'
<1>1. /\ work.at = "malloc" /\ UNCHANGED <<buf, qp, nvm, dram, latest>>
      /\ Known \subseteq Known' /\ Known' \subseteq Known \cup {info.addr}
      /\ inDram' = inDram \/ inDram' = inDram \ {info.addr}
  BY DEF MallocDone, entry, net, server, Known
<1>2. o \in Known /\ Tracked(o)
  BY <1>1 DEF Tracked, Frame, UnmovedKnown
<1>3. o # info.addr
  BY <1>1, <1>2 DEF Frame, NewToTable
<1>4. o \in inDram' <=> o \in inDram
  BY <1>1, <1>3
<1> QED BY <1>1, <1>2, <1>4, SameObject

LEMMA PostOtherValue ==
  ASSUME Frame, PostMalloc \/ PostFree, NEW o \in Objects, ValueKept(o), Tracked(o)'
  PROVE  ValueKept(o)'
<1>1. UNCHANGED <<buf, nvm, dram, latest>>
  BY DEF PostMalloc, PostFree, server
<1>2. o \in Known /\ (o \in inDram' <=> o \in inDram)
  BY DEF PostMalloc, PostFree, Unlink, entry, Tracked, Known
<1>3. Tracked(o)
  BY <1>1, <1>2 DEF Tracked
<1>4. PICK r \in Requests : Post(r) /\ ~ IsAccess(r)
  <2>1. [op |-> "malloc"] \in Requests
    BY DEF Requests
  <2>2. CASE PostFree
    <3>1. work.job.obj \in Objects
      BY <2>2, JobStarted DEF PostFree, Starts, Frame
    <3>2. [op |-> "free", obj |-> work.job.obj] \in Requests
      BY <3>1 DEF Requests
    <3> QED BY <2>2, <3>2 DEF PostFree, IsAccess
  <2> QED BY <2>1, <2>2 DEF PostMalloc, IsAccess
<1>5. ToSet(qp') = IF broken THEN ToSet(qp) ELSE ToSet(qp) \cup {r}
  BY <1>4, SetOfPost DEF Frame
<1>6. \A s : IsAccessOf(s, o) => (s \in ToSet(qp') <=> s \in ToSet(qp))
  BY <1>4, <1>5 DEF IsAccessOf
<1> QED BY <1>1, <1>2, <1>3, <1>6, SameObject

LEMMA PostReadValue ==
  ASSUME Frame, PostRead, NEW o \in Objects, ValueKept(o), Tracked(o)'
  PROVE  ValueKept(o)'
<1>1. UNCHANGED <<buf, nvm, dram, latest, Known, inDram>>
  BY DEF PostRead, server, entry, Known
<1>2. Tracked(o)
  BY <1>1 DEF Tracked
<1>3. PICK b \in Buffers \cup Apps :
        Post([op |-> "read", obj |-> work.job.obj, buf |-> b,
              dram |-> work.job.obj \in inDram])
  BY DEF PostRead
<1>4. work.job.obj \in Objects
  BY JobStarted DEF PostRead, Starts, Frame
<1>5. [op |-> "read", obj |-> work.job.obj, buf |-> b,
       dram |-> work.job.obj \in inDram] \in Requests
  BY <1>4 DEF Requests
<1>6. PICK r \in Requests :
        r = [op |-> "read", obj |-> work.job.obj, buf |-> b,
             dram |-> work.job.obj \in inDram]
  BY <1>5, Zenon
<1>7. /\ Post(r) /\ ~ IsWriteOf(r, o)
      /\ r.obj = work.job.obj /\ (r.dram <=> work.job.obj \in inDram)
  BY <1>3, <1>6 DEF IsWriteOf
<1>8. ToSet(qp') = IF broken THEN ToSet(qp) ELSE ToSet(qp) \cup {r}
  BY <1>7, SetOfPost DEF Frame
<1>9. /\ \A s \in ToSet(qp) : IsAccessOf(s, o) => (s.dram <=> o \in inDram)
      /\ \A s \in ToSet(qp) : IsWriteOf(s, o) => buf[s.buf] = latest[o].val
      /\ (\A s \in ToSet(qp) : ~ IsWriteOf(s, o)) => (Content(o) = latest[o].val)
  BY <1>2 DEF ValueKept
<1>10. \A s \in ToSet(qp') : IsAccessOf(s, o) => (s.dram <=> o \in inDram')
  BY <1>1, <1>7, <1>8, <1>9 DEF IsAccessOf
<1>11. \A s \in ToSet(qp') : IsWriteOf(s, o) => buf'[s.buf] = latest'[o].val
  BY <1>1, <1>7, <1>8, <1>9
<1>12. Content(o)' = Content(o)
  BY <1>1 DEF Content
<1>13. (\A s \in ToSet(qp') : ~ IsWriteOf(s, o)) => (Content(o)' = latest'[o].val)
  BY <1>1, <1>8, <1>9, <1>12
<1> QED BY <1>10, <1>11, <1>13 DEF ValueKept, IsWriteOf, IsAccessOf, IsAccess

LEMMA PostWriteValue ==
  ASSUME Frame, ~ broken, PostWrite, NEW o \in Objects, ValueKept(o), Tracked(o)'
  PROVE  ValueKept(o)'
<1>1. /\ work.at = "start" /\ work.job.obj \in Objects /\ work.job \in WriteJob
      /\ work.job.obj \notin writeFlag
      /\ UNCHANGED <<nvm, dram, Known, inDram>>
  BY JobStarted DEF PostWrite, Starts, WriteIdle, server, Frame, Known
<1>2. SmallWrites /\ work.job.app \in Apps
  BY <1>1, NothingAwaited DEF Frame, WriteJob
<1>3. PICK b \in Buffers \cup Apps :
        /\ GetMr(b)
        /\ buf' = [buf EXCEPT ![b] = work.job.val]
        /\ Post([op |-> "write", obj |-> work.job.obj, buf |-> b,
                 dram |-> work.job.obj \in inDram])
  BY DEF PostWrite
<1>4. [op |-> "write", obj |-> work.job.obj, buf |-> b,
       dram |-> work.job.obj \in inDram] \in Requests
  BY <1>1 DEF Requests
<1>5. PICK r \in Requests :
        r = [op |-> "write", obj |-> work.job.obj, buf |-> b,
             dram |-> work.job.obj \in inDram]
  BY <1>4, Zenon
<1>6. /\ Post(r) /\ r.op = "write" /\ r.obj = work.job.obj /\ r.buf = b
      /\ (r.dram <=> work.job.obj \in inDram)
  BY <1>3, <1>5
<1>7. ToSet(qp') = ToSet(qp) \cup {r}
  BY <1>6, SetOfPost DEF Frame
<1>8. ASSUME NEW s \in ToSet(qp), IsAccess(s)
      PROVE  s.buf # b /\ s.buf \in Buffers \cup Apps /\ s.obj # work.job.obj
  <2>1. PICK i \in Positions : Flight[i] = s
    BY PlaceInFlight DEF Frame
  <2>2. s.buf # b
    BY <1>2, <1>3, <1>8, <2>1, FreshBuffer DEF Frame
  <2>3. s \in Requests
    BY PlaceInFlight DEF Frame
  <2>4. s.op = "write"
    BY <1>2, <1>8, <2>1 DEF SmallWrites, Awaited, IsAccess
  <2>5. s.obj # work.job.obj
    BY <1>1, <2>1, <2>4 DEF Frame, FlightInv, FlagsExact, IsWrite
  <2> QED BY <1>8, <2>2, <2>3, <2>5, RequestOf
<1>9. /\ buf \in [Buffers \cup Apps -> Contents]
      /\ latest \in [Objects -> [val : Contents, moved : BOOLEAN]]
  BY DEF Frame, RestTypes
<1>10. latest' = [latest EXCEPT ![work.job.obj] = [val |-> work.job.val, moved |-> FALSE]]
  BY DEF PostWrite
<1>11. CASE o = work.job.obj
  <2>1. \A s \in ToSet(qp') : IsAccessOf(s, o) => s = r
    BY <1>7, <1>8, <1>11 DEF IsAccessOf
  <2>2. \A s \in ToSet(qp') : IsAccessOf(s, o) => (s.dram <=> o \in inDram')
    BY <1>1, <1>6, <1>11, <2>1
  <2>3. buf'[b] = work.job.val /\ latest'[o].val = work.job.val
    BY <1>1, <1>3, <1>9, <1>10, <1>11
  <2>4. \A s \in ToSet(qp') : IsWriteOf(s, o) => buf'[s.buf] = latest'[o].val
    BY <1>6, <2>1, <2>3 DEF IsWriteOf, IsAccessOf, IsAccess
  <2>5. r \in ToSet(qp') /\ IsWriteOf(r, o)
    BY <1>6, <1>7, <1>11 DEF IsWriteOf
  <2> QED BY <2>2, <2>4, <2>5 DEF ValueKept, IsWriteOf, IsAccessOf, IsAccess
<1>12. CASE o # work.job.obj
  <2>1. latest'[o] = latest[o]
    BY <1>1, <1>9, <1>10, <1>12
  <2>2. Tracked(o)
    BY <1>1, <2>1 DEF Tracked
  <2>3. \A s : IsAccessOf(s, o) => (s \in ToSet(qp') <=> s \in ToSet(qp))
    BY <1>6, <1>7, <1>12 DEF IsAccessOf
  <2>4. \A s \in ToSet(qp) : IsWriteOf(s, o) => buf'[s.buf] = buf[s.buf]
    BY <1>3, <1>8, <1>9 DEF IsWriteOf, IsAccess
  <2> QED BY <1>1, <2>1, <2>2, <2>3, <2>4, SameObject
<1> QED BY <1>11, <1>12

LEMMA ExecReadValue ==
  ASSUME Frame, ExecRead, NEW o \in Objects, ValueKept(o), Tracked(o)'
  PROVE  ValueKept(o)'
<1>1. /\ qp # <<>> /\ Head(qp).op = "read" /\ qp' = Tail(qp)
      /\ UNCHANGED <<nvm, dram, Known, inDram, latest>>
  BY DEF ExecRead, Runs, Completes, server, entry, Known
<1>2. ToSet(qp') = {}
  BY <1>1, AwaitedRequest DEF Awaited, Frame
<1>3. ToSet(qp) = ToSet(qp') \cup {Head(qp)}
  BY <1>1, SetOfTail DEF Frame, FlightInv, Types
<1>4. \A r \in ToSet(qp) : ~ IsWriteOf(r, o)
  BY <1>1, <1>2, <1>3 DEF IsWriteOf
<1>5. Tracked(o) /\ Content(o)' = Content(o)
  BY <1>1 DEF Tracked, Content
<1>6. Content(o)' = latest'[o].val
  BY <1>1, <1>4, <1>5 DEF ValueKept
<1> QED BY <1>2, <1>6 DEF ValueKept

LEMMA ExecWriteValue ==
  ASSUME Frame, ExecWrite, NEW o \in Objects, ValueKept(o), Tracked(o)'
  PROVE  ValueKept(o)'
<1> DEFINE h == Head(qp)
<1>1. /\ ~ broken /\ qp # <<>> /\ h.op = "write" /\ qp' = Tail(qp)
      /\ UNCHANGED <<buf, Known, inDram, latest>>
      /\ IF h.dram THEN dram' = [dram EXCEPT ![h.obj] = buf[h.buf]] /\ nvm' = nvm
                   ELSE nvm' = [nvm EXCEPT ![h.obj] = buf[h.buf]] /\ dram' = dram
  BY DEF ExecWrite, Runs, Completes, server, entry, Known
<1>2. h \in Requests /\ ToSet(qp) = ToSet(qp') \cup {h}
  BY <1>1, SetOfTail DEF Frame, FlightInv, Types
<1>3. h.obj \in Objects
  BY <1>1, <1>2, RequestOf DEF IsAccess
<1>4. nvm \in [Objects -> Contents] /\ dram \in [Objects -> Contents]
  BY DEF Frame, RestTypes
<1>5. Tracked(o)
  BY <1>1 DEF Tracked
<1>6. CASE o = h.obj
  <2>1. IsAccessOf(h, o) /\ IsWriteOf(h, o)
    BY <1>1, <1>6 DEF IsAccessOf, IsWriteOf, IsAccess
  <2>2. (h.dram <=> o \in inDram) /\ buf[h.buf] = latest[o].val
    BY <1>2, <1>5, <2>1 DEF ValueKept
  <2>3. Content(o)' = latest'[o].val
    BY <1>1, <1>3, <1>4, <1>6, <2>2 DEF Content
  <2>4. \A r \in ToSet(qp') : IsAccessOf(r, o) => (r.dram <=> o \in inDram')
    BY <1>1, <1>2, <1>5 DEF ValueKept
  <2>5. \A r \in ToSet(qp') : IsWriteOf(r, o) => buf'[r.buf] = latest'[o].val
    BY <1>1, <1>2, <1>5 DEF ValueKept
  <2> QED BY <2>3, <2>4, <2>5 DEF ValueKept, IsWriteOf, IsAccessOf, IsAccess
<1>7. CASE o # h.obj
  <2>1. nvm'[o] = nvm[o] /\ dram'[o] = dram[o]
    BY <1>1, <1>3, <1>4, <1>7
  <2>2. \A r : IsAccessOf(r, o) => (r \in ToSet(qp') <=> r \in ToSet(qp))
    BY <1>2, <1>7 DEF IsAccessOf
  <2> QED BY <1>1, <1>5, <2>1, <2>2, SameObject
<1> QED BY <1>6, <1>7

LEMMA ServeValue ==
  ASSUME Frame, ServeMalloc \/ ServeFree, NEW o \in Objects, ValueKept(o), Tracked(o)'
  PROVE  ValueKept(o)'
<1>1. /\ qp # <<>> /\ ~ IsAccess(Head(qp)) /\ qp' = Tail(qp)
      /\ UNCHANGED <<buf, Known, inDram>>
  BY DEF ServeMalloc, ServeFree, Runs, Completes, IsAccess, entry, Known
<1>2. ToSet(qp) = ToSet(qp') \cup {Head(qp)} /\ Head(qp) \in Requests
  BY <1>1, SetOfTail DEF Frame, FlightInv, Types
<1>3. \A r : IsAccessOf(r, o) => (r \in ToSet(qp') <=> r \in ToSet(qp))
  BY <1>1, <1>2 DEF IsAccessOf
<1>4. CASE ServeMalloc
  <2>1. /\ UNCHANGED <<latest, dram>>
        /\ \/ nvm' = nvm
           \/ \E p \in Objects \ granted : nvm' = [nvm EXCEPT ![p] = Junk]
    BY <1>4 DEF ServeMalloc
  <2>2. o \in granted /\ Tracked(o)
    BY <1>1, <2>1 DEF Tracked, Frame, UnmovedKnown
  <2>3. nvm'[o] = nvm[o]
    BY <2>1, <2>2 DEF Frame, RestTypes
  <2> QED BY <1>1, <1>3, <2>1, <2>2, <2>3, SameObject
<1>5. CASE ServeFree
  <2>1. PICK p \in Objects :
          /\ Destroy(p)
          /\ latest' = [latest EXCEPT ![p] = [val |-> Junk, moved |-> TRUE]]
    <3>1. Head(qp).op = "free"
      BY <1>5 DEF ServeFree, Runs
    <3>2. Head(qp).obj \in Objects
      BY <1>2, <3>1 DEF Requests
    <3> QED BY <1>5, <3>2 DEF ServeFree
  <2>2. o # p /\ latest'[o] = latest[o]
    BY <2>1 DEF Tracked, Frame, RestTypes
  <2>3. nvm'[o] = nvm[o] /\ dram'[o] = dram[o]
    BY <2>1, <2>2, DestroyTypes DEF Frame
  <2>4. Tracked(o)
    BY <1>1, <2>2 DEF Tracked
  <2> QED BY <1>1, <1>3, <2>2, <2>3, <2>4, SameObject
<1> QED BY <1>4, <1>5

LEMMA PollValue ==
  ASSUME Frame, ServeApply \/ ServeClear \/ PollAnswered,
         NEW o \in Objects, ValueKept(o), Tracked(o)'
  PROVE  ValueKept(o)'
<1>1. pollMsg # None /\ pollMsg.obj \in Objects
  <2>1. pollMsg.at \in {"server", "client"}
    BY DEF ServeApply, ServeClear, PollAnswered
  <2> QED BY <2>1, PollKinds DEF Frame, RestTypes
<1>2. UNCHANGED <<qp, buf, Known>>
  BY DEF ServeApply, ServeClear, PollAnswered, entry, Known
<1>3. CASE PollAnswered
  <2>1. /\ pollMsg.at = "client" /\ UNCHANGED <<nvm, dram, latest>>
        /\ inDram' = IF pollMsg.type = "apply" /\ pollMsg.ok
                     THEN inDram \cup {pollMsg.obj} ELSE inDram \ {pollMsg.obj}
    BY <1>3 DEF PollAnswered, server
  <2>2. Tracked(o)
    BY <1>2, <2>1 DEF Tracked
  <2>3. o \in inDram' <=> o \in inDram
    <3>1. CASE o # pollMsg.obj
      BY <2>1, <3>1
    <3>2. CASE o = pollMsg.obj
      <4>1. pollMsg.type = "apply" /\ ~ pollMsg.ok /\ o \notin inDram
        BY <1>1, <2>1, <2>2, <3>2 DEF Tracked, Frame, PollTurn
      <4> QED BY <2>1, <3>2, <4>1
    <3> QED BY <3>1, <3>2
  <2> QED BY <1>2, <2>1, <2>2, <2>3, SameObject
<1>4. CASE ServeApply \/ ServeClear
  <2>1. inDram' = inDram
    BY <1>4 DEF ServeApply, ServeClear, entry
  <2>2. latest'[o] = latest[o]
    BY <1>4, MovesOnly DEF Tracked, Frame
  <2>3. Tracked(o)
    BY <1>2, <2>2 DEF Tracked
  <2>4. Moved(pollMsg.obj) => o # pollMsg.obj
    BY <1>1 DEF Moved, Tracked, Frame, RestTypes
  <2>5. nvm'[o] = nvm[o] /\ dram'[o] = dram[o]
    <3>1. CASE ServeApply
      BY <1>1, <2>4, <3>1 DEF ServeApply, Frame, RestTypes
    <3>2. CASE ServeClear
      <4>1. Destroy(pollMsg.obj) /\ o \in Objects \ {pollMsg.obj}
        BY <2>4, <3>2 DEF ServeClear
      <4>2. \A p \in Objects : Destroy(p) =>
              \A q \in Objects \ {p} : nvm'[q] = nvm[q] /\ dram'[q] = dram[q]
        BY DestroyTypes DEF Frame
      <4> QED BY <1>1, <4>1, <4>2
    <3> QED BY <1>4, <3>1, <3>2
  <2> QED BY <1>2, <2>1, <2>2, <2>3, <2>5, SameObject
<1> QED BY <1>3, <1>4

LEMMA NextValuesKept ==
  ASSUME Frame, ValuesKept, [Next]_vars
  PROVE  ValuesKept'
<1> SUFFICES ASSUME ~ broken', NEW o \in Objects, Tracked(o)'
             PROVE  ValueKept(o)'
  BY DEF ValuesKept, ValueKept
<1>1. ~ AccessError
  BY DEF AccessError
<1>2. ~ broken
  BY <1>1, Writers
<1>3. ValueKept(o)
  BY <1>2 DEF ValuesKept
<1>4. CASE UNCHANGED <<Known, inDram, latest, buf, nvm, dram, qp>>
  <2>1. Tracked(o)
    BY <1>4 DEF Tracked
  <2> QED BY <1>3, <1>4, <2>1, SameObject
<1>5. \/ UNCHANGED <<Known, inDram, latest, buf, nvm, dram, qp>>
      \/ MallocDone \/ PostMalloc \/ PostFree \/ PostRead \/ PostWrite
      \/ ExecRead \/ ExecWrite \/ ServeMalloc \/ ServeFree
      \/ ServeApply \/ ServeClear \/ PollAnswered
  BY <1>1, Writers DEF Connection
<1> QED
  BY <1>2, <1>3, <1>4, <1>5, MallocDoneValue, PostOtherValue, PostReadValue,
     PostWriteValue, ExecReadValue, ExecWriteValue, ServeValue, PollValue
-----------------------------------------------------------------------------
(***************************************************************************)
(* What a read brings.                                                     *)
(***************************************************************************)
\* What was written last to an object changes with a write, a free or a move.
LEMMA LatestSteps ==
  ASSUME Frame, [Next]_vars, work.at = "read", NEW o \in Objects
  PROVE  latest'[o].moved \/ latest'[o] = latest[o]
<1>1. ~ PostWrite
  BY DEF PostWrite, Starts
<1>2. CASE ServeFree
  BY <1>2 DEF ServeFree, Frame, RestTypes
<1>3. CASE ServeApply \/ ServeClear
  BY <1>3, MovesOnly DEF Frame
<1> QED BY <1>1, <1>2, <1>3, Writers

\* An executed read is in the buffer.
LEMMA ExecReadFetches ==
  ASSUME Frame, ValuesKept, ExecRead, ~ latest[Head(qp).obj].moved
  PROVE  buf'[Head(qp).buf] = latest[Head(qp).obj].val
<1> DEFINE h == Head(qp)
<1>1. /\ ~ broken /\ qp # <<>> /\ h.op = "read"
      /\ buf' = [buf EXCEPT ![h.buf] = IF h.dram THEN dram[h.obj] ELSE nvm[h.obj]]
  BY DEF ExecRead, Runs
<1>2. h \in Requests /\ ToSet(qp) = ToSet(Tail(qp)) \cup {h}
  BY <1>1, SetOfTail DEF Frame, FlightInv, Types
<1>3. h.obj \in Objects /\ h.buf \in Buffers \cup Apps
  BY <1>1, <1>2, RequestOf DEF IsAccess
<1>4. ToSet(Tail(qp)) = {}
  BY <1>1, AwaitedRequest DEF Awaited, Frame
<1>5. work.at = "read"
  BY <1>1, <1>2, AwaitedIs DEF UnderWay, Awaited, AwaitedBy, Frame
<1>6. Tracked(h.obj)
  BY <1>3, <1>5 DEF Tracked, Frame, UnmovedKnown
<1>7. ValueKept(h.obj)
  BY <1>1, <1>3 DEF ValuesKept
<1>8. \A r \in ToSet(qp) : ~ IsWriteOf(r, h.obj)
  BY <1>1, <1>2, <1>4 DEF IsWriteOf
<1>9. IsAccessOf(h, h.obj)
  BY <1>1 DEF IsAccessOf, IsAccess
<1>10. Content(h.obj) = latest[h.obj].val /\ (h.dram <=> h.obj \in inDram)
  BY <1>2, <1>6, <1>7, <1>8, <1>9 DEF ValueKept
<1>11. buf'[h.buf] = IF h.dram THEN dram[h.obj] ELSE nvm[h.obj]
  BY <1>1, <1>3 DEF Frame, RestTypes
<1> QED BY <1>10, <1>11 DEF Content

LEMMA NextFetched ==
  ASSUME Frame, ValuesKept, Fetched, [Next]_vars
  PROVE  Fetched'
<1>1. ASSUME NEW r \in ToSet(cq'), r.op = "read", ~ latest'[r.obj].moved
      PROVE  buf'[r.buf] = latest'[r.obj].val
  <2>1. CASE r \in ToSet(cq)
    <3>1. work.at = "read"
      BY <1>1, <2>1, AwaitedIs DEF UnderWay, Awaited, AwaitedBy, Frame
    <3>2. r \in Completions
      BY <2>1, PlaceInFlight DEF Frame
    <3>3. latest'[r.obj] = latest[r.obj]
      BY <1>1, <3>1, <3>2, LatestSteps, RequestOf DEF IsAccess
    <3>4. ~ ExecRead
      <4>1. SUFFICES ASSUME ExecRead PROVE FALSE
        OBVIOUS
      <4>2. qp # <<>> /\ Awaited(Head(qp))
        BY <4>1 DEF ExecRead, Runs, Awaited
      <4> QED BY <1>1, <2>1, <4>2, AwaitedRequest DEF Awaited, Frame
    <3>5. buf' = buf
      BY <3>1, <3>4, Writers DEF PostWrite, Starts
    <3> QED BY <1>1, <2>1, <3>3, <3>5 DEF Fetched
  <2>2. CASE ExecRead /\ r = Head(qp)
    <3>1. latest' = latest
      BY <2>2 DEF ExecRead
    <3> QED BY <1>1, <2>2, <3>1, ExecReadFetches
  <2>3. CASE ExecWrite /\ r = Head(qp)
    BY <1>1, <2>3 DEF ExecWrite, Runs
  <2> QED BY <1>1, <2>1, <2>2, <2>3, QueueSteps DEF Frame
<1>2. ASSUME work'.at = "read", taskDone', ~ latest'[work'.job.obj].moved
      PROVE  buf'[work'.buf] = latest'[work'.job.obj].val
  <2>1. ~ PostRead
    <3>1. SUFFICES ASSUME PostRead PROVE FALSE
      OBVIOUS
    <3>2. work.at = "start" /\ taskDone' = taskDone
      BY <3>1 DEF PostRead, Starts
    <3> QED BY <1>2, <3>2, NothingAwaited DEF Frame
  <2>2. work' = work /\ work.at = "read"
    BY <1>2, <2>1, WorkSteps DEF Frame
  <2>3. work.job \in ReadJob
    BY <2>2, WorkKinds DEF Frame, FlightInv, Types
  <2>4. work.job.obj \in Objects
    BY <2>3 DEF ReadJob
  <2>5. latest'[work.job.obj] = latest[work.job.obj]
    BY <1>2, <2>2, <2>4, LatestSteps
  <2>6. CASE taskDone
    <3>1. ~ ExecRead
      <4>1. SUFFICES ASSUME ExecRead PROVE FALSE
        OBVIOUS
      <4>2. qp # <<>> /\ Awaited(Head(qp)) /\ Head(qp).op = "read"
        BY <4>1 DEF ExecRead, Runs, Awaited
      <4>3. Head(qp) \in UnderWay
        BY <4>2, SetOfTail DEF UnderWay, Frame, FlightInv, Types
      <4> QED BY <2>6, <4>2, <4>3, AwaitedIs DEF AwaitedBy, Frame
    <3>2. buf' = buf
      BY <2>2, <3>1, Writers DEF PostWrite, Starts
    <3> QED BY <1>2, <2>2, <2>5, <2>6, <3>2 DEF Fetched
  <2>7. CASE ReadCompletes
    <3>1. cq # <<>> /\ Head(cq).op = "read" /\ buf' = buf
      BY <2>7 DEF ReadCompletes, Handles
    <3>2. Head(cq) \in ToSet(cq)
      BY <3>1, SetOfTail DEF Frame, FlightInv, Types
    <3>3. work.buf = Head(cq).buf
      BY <3>1, <3>2, AwaitedIs DEF UnderWay, Awaited, AwaitedBy, Frame
    <3>4. Head(cq).obj = work.job.obj
      BY <3>1, <3>2 DEF Frame, ReadsOwn
    <3> QED BY <1>2, <2>2, <2>5, <3>1, <3>2, <3>3, <3>4 DEF Fetched
  <2>8. CASE WriteCompletes /\ ~ taskDone
    <3>1. cq # <<>> /\ Head(cq).op = "write" /\ Head(cq).buf \in Apps
      BY <1>2, <2>8 DEF WriteCompletes, Handles
    <3>2. Head(cq) \in UnderWay
      BY <3>1, SetOfTail DEF UnderWay, Frame, FlightInv, Types
    <3> QED BY <2>2, <3>1, <3>2, AwaitedIs DEF Awaited, AwaitedBy, Frame
  <2>9. taskDone' = taskDone \/ ReadCompletes \/ WriteCompletes
    <3>1. CASE Client
      BY <2>2, <3>1 DEF Client, Take, NotFound, PostMalloc, MallocDone, PostFree, FreeDone,
         PostRead, ReadDone, PostWrite, WriteDone, PostPoll, PollDone, Starts, Done, Idle
    <3>2. CASE ~ Client
      BY <3>2 DEF Next, Call, PollTimer, Connection, ExecRead, ExecWrite, AccessError,
         ServeMalloc, ServeFree, PollServer, ServeApply, ServeClear, EpollPoll,
         PollAnswered, Epoll, GrantArrives, RefusalLength, RefusalAddr, FreedArrives, vars
    <3> QED BY <3>1, <3>2
  <2> QED BY <1>2, <2>6, <2>7, <2>8, <2>9
<1> QED BY <1>1, <1>2 DEF Fetched
-----------------------------------------------------------------------------
LEMMA InitReadsInv == Init => ReadsInv
<1> SUFFICES ASSUME Init PROVE ReadsInv
  OBVIOUS
<1>1. ToSet(qp) = {} /\ ToSet(cq) = {}
  BY SetOfEmpty DEF Init
<1>2. RestTypes
  BY DEF Init, RestTypes, Contents, PollMessages
<1>3. PollTurn /\ UnmovedKnown
  BY DEF Init, PollTurn, UnmovedKnown
<1>4. NewToTable /\ ReadsOwn /\ Fetched
  BY <1>1 DEF Init, NewToTable, ReadsOwn, Fetched, Idle
<1>5. ValuesKept
  BY DEF Init, ValuesKept, ValueKept, Tracked
<1> QED BY <1>2, <1>3, <1>4, <1>5 DEF ReadsInv

LEMMA NextReadsInv ==
  ASSUME FlightInv, ReadsInv, [Next]_vars
  PROVE  ReadsInv'
<1>1. Frame
  BY DEF Frame, ReadsInv
<1>2. RestTypes' /\ PollTurn' /\ UnmovedKnown' /\ NewToTable' /\ ReadsOwn'
  BY NextRestTypes, NextPollTurn, NextUnmovedKnown, NextNewToTable, NextReadsOwn
     DEF ReadsInv
<1>3. ValuesKept' /\ Fetched'
  BY <1>1, NextValuesKept, NextFetched DEF ReadsInv
<1> QED BY <1>2, <1>3 DEF ReadsInv

LEMMA ReadsAlways == Spec => [](FlightInv /\ ReadsInv)
<1>1. Init => FlightInv /\ ReadsInv
  BY InvInit, InitReadsInv
<1>2. FlightInv /\ ReadsInv /\ [Next]_vars => (FlightInv /\ ReadsInv)'
  BY InvNext, NextReadsInv
<1> QED BY <1>1, <1>2, PTL DEF Spec

\* Type correctness of the client, its connection and the server's side: no
\* handler stores what is not an object, a buffer or a value, and only an
\* object of the table has a copy.
THEOREM ClientTypeOK == Spec => []TypeOK
<1>1. FlightInv /\ ReadsInv => TypeOK
  <2> SUFFICES ASSUME FlightInv, ReadsInv PROVE TypeOK
    OBVIOUS
  <2>1. work = Idle \/ work.job \in Jobs \cup {Poll}
    BY DEF FlightInv, Types, Works, Jobs, MallocJob, FreeJob, ReadJob, WriteJob
  <2> QED BY <2>1 DEF FlightInv, Types, ReadsInv, RestTypes, TypeOK, Contents
<1> QED BY <1>1, ReadsAlways, PTL

\* A read returns what the latest write before it in the work list wrote, if
\* the object has not been moved since, whatever small writes are under way,
\* whoever used the buffers before, and whether the queue pair has broken.
THEOREM ClientReadsBack == Spec => ReadsBack
<1> DEFINE Back == \A o \in Objects, v \in Values \cup {Junk} :
                     (Reads(o, v) /\ ~ latest[o].moved) => v = latest[o].val
<1>1. FlightInv /\ ReadsInv /\ [Next]_vars => [Back]_vars
  <2> SUFFICES ASSUME FlightInv, ReadsInv, [Next]_vars,
                      NEW o \in Objects, NEW v \in Values \cup {Junk},
                      Reads(o, v), ~ latest[o].moved
               PROVE  v = latest[o].val
    OBVIOUS
  <2>1. work.at = "read" /\ work'.at = "idle" /\ work.job.obj = o /\ buf[work.buf] = v
    BY DEF Reads
  <2>2. ReadDone
    BY <2>1, WorkSteps
  <2> QED BY <2>1, <2>2 DEF ReadDone, ReadsInv, Fetched
<1> QED BY <1>1, ReadsAlways, PTL DEF Spec, ReadsBack
=============================================================================
