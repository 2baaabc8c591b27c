---------------------------- MODULE LifecycleProofs ----------------------------
(***************************************************************************)
(* Proofs about the life of the process: any number of DNS servers, of     *)
(* queries and of requests, with every way startup can fail and every      *)
(* order in which listeners, handlers and the signal can act.              *)
(***************************************************************************)
EXTENDS Lifecycle, SequenceTheorems, TLAPS

-----------------------------------------------------------------------------
(* The inductive invariant.                                                *)

\* What run has deferred, stage after stage.
S0 == <<>>
S1 == <<"store">> \o S0
S2 == <<"geo">> \o S1
S3 == <<"recorder">> \o S2
S4 == <<"dashboard">> \o S3
C3 == <<"cancel">> \o S3
C4 == <<"cancel">> \o S4

\* The deferred calls tell how far startup came, and what is open is what
\* they are to close.
Stack ==
  /\ pc = "store" => defers = S0
  /\ pc \in {"load", "geo"} => defers = S1
  /\ pc = "recorder" => defers = S2
  /\ pc = "dashboard" => defers = S3
  /\ pc = "serve" => defers \in {S3, S4}
  /\ pc \in {"wait", "shutdown", "apiShutdown"} => defers \in {C3, C4}
  /\ pc = "defers" => defers \in {S0, S1, S2, S3, S4, C3, C4}
  /\ open = Range(defers) \ {"cancel"}

Starting == pc \in {"store", "load", "geo", "recorder", "dashboard", "serve"}

\* Before the listeners were started, and when startup failed, no query came.
Early ==
  /\ Starting \/ result = "startup" => \A l \in Listeners : listener[l] = "none"
  /\ result = "startup" => pc = "defers"
  /\ \A q \in Queries : listener[Via[q]] = "none" => qpc[q] = "none"

\* A server that serves no longer, and whose handlers have returned.
Finished(s) == listener[s] \in {"stopped", "broken", "failed"} /\ ~Busy(s)

AllShut == pc = "apiShutdown" \/ (pc = "defers" /\ result # "startup")

\* The servers whose turn is over are finished, except those it missed.
Turns ==
  /\ Starting \/ pc = "wait" => turn = 1
  /\ pc = "shutdown" => turn <= Len(DnsServers)
  /\ AllShut => turn = Len(DnsServers) + 1
  /\ \A i \in 1 .. turn - 1 : DnsServers[i] \in missed \/ Finished(DnsServers[i])

\* The recorder closes in its turn, owing what every handler waited for handed
\* to it.
Recording ==
  /\ phase # "open" => pc = "defers"
  /\ phase = "closing" => defers = S3
  /\ phase = "closed" => defers \in {S0, S1, S2}
  /\ AllShut /\ phase = "open" => defers \in {S3, S4, C3, C4}
  /\ phase = "closed" => \A q \in owed : status[q] \in {"stored", "dropped"}
  /\ \A q \in Waited : qpc[q] \in {"reply", "done"} =>
       status[q] \in {"stored", "dropped"} \/ (status[q] = "pending" /\ q \in owed)

Ended == ~Running => pc = "defers" /\ defers = S0

IInv == TypeOK /\ Stack /\ Early /\ Turns /\ Recording /\ Ended

-----------------------------------------------------------------------------
(* Sequences of deferred calls.                                            *)

\* Pushing a call makes it the head.
LEMMA Push ==
  ASSUME NEW S, NEW c \in S, NEW s \in Seq(S)
  PROVE  /\ <<c>> \o s \in Seq(S)
         /\ <<c>> \o s # <<>>
         /\ Head(<<c>> \o s) = c
         /\ Tail(<<c>> \o s) = s
         /\ Range(<<c>> \o s) = {c} \cup Range(s)
<1> DEFINE t == <<c>> \o s
<1>1. <<c>> \in Seq(S) /\ Len(<<c>>) = 1 /\ <<c>>[1] = c /\ Len(s) \in Nat
  OBVIOUS
<1>2. /\ t \in Seq(S) /\ Len(t) = 1 + Len(s)
      /\ \A i \in 1 .. 1 + Len(s) : t[i] = IF i <= 1 THEN <<c>>[i] ELSE s[i - 1]
  BY <1>1, ConcatProperties
<1> HIDE DEF t
<1>3. t[1] = c /\ \A i \in 1 .. Len(s) : t[i + 1] = s[i]
  <2>1. t[1] = c
    BY <1>1, <1>2
  <2>2. ASSUME NEW i \in 1 .. Len(s)
        PROVE  t[i + 1] = s[i]
    <3>1. i + 1 \in 1 .. 1 + Len(s) /\ ~(i + 1 <= 1) /\ (i + 1) - 1 = i
      BY <1>1
    <3> QED BY <1>2, <3>1
  <2> QED BY <2>1, <2>2
<1>4. t # <<>> /\ Head(t) = c
  BY <1>1, <1>2, <1>3
<1>5. Tail(t) = s
  <2>1. Tail(t) \in Seq(S) /\ Len(Tail(t)) = Len(t) - 1
        /\ \A i \in 1 .. Len(Tail(t)) : Tail(t)[i] = t[i + 1]
    BY <1>2, <1>4, HeadTailProperties
  <2>2. Len(Tail(t)) = Len(s)
    BY <1>1, <1>2, <2>1
  <2>3. \A i \in 1 .. Len(Tail(t)) : Tail(t)[i] = s[i]
    BY <1>3, <2>1, <2>2
  <2> QED BY <2>1, <2>2, <2>3, SeqEqual
<1>6. Range(t) = {c} \cup Range(s)
  <2>1. DOMAIN t = 1 .. 1 + Len(s) /\ DOMAIN s = 1 .. Len(s)
    BY <1>2
  <2>2. \A i \in 1 .. 1 + Len(s) : i = 1 \/ (i - 1 \in 1 .. Len(s) /\ i = (i - 1) + 1)
    BY <1>1
  <2>3. \A i \in 1 .. Len(s) : i + 1 \in 1 .. 1 + Len(s)
    BY <1>1
  <2>4. 1 \in 1 .. 1 + Len(s)
    BY <1>1
  <2>5. \A x : x \in Range(t) <=> \E i \in 1 .. 1 + Len(s) : t[i] = x
    BY <2>1 DEF Range
  <2>6. \A x : x \in Range(s) <=> \E i \in 1 .. Len(s) : s[i] = x
    BY <2>1 DEF Range
  <2>7. ASSUME NEW x \in Range(t) PROVE x \in {c} \cup Range(s)
    <3>1. PICK i \in 1 .. 1 + Len(s) : t[i] = x
      BY <2>5
    <3>2. CASE i = 1
      BY <1>3, <3>1, <3>2
    <3>3. CASE i - 1 \in 1 .. Len(s) /\ i = (i - 1) + 1
      BY <1>3, <2>6, <3>1, <3>3
    <3> QED BY <2>2, <3>2, <3>3
  <2>8. ASSUME NEW x \in {c} \cup Range(s) PROVE x \in Range(t)
    BY <1>3, <2>3, <2>4, <2>5, <2>6
  <2> QED BY <2>7, <2>8
<1> QED BY <1>2, <1>4, <1>5, <1>6 DEF t

\* The calls run defers: a Close for each component it opens, and cancel.
Calls == {"store", "geo", "recorder", "dashboard", "cancel"}

\* The seven stacks, by what the deferred calls do with them.
LEMMA Stacks ==
  /\ Range(S0) = {} /\ Range(S1) = {"store"} /\ Range(S2) = {"geo", "store"}
  /\ Range(S3) = {"recorder", "geo", "store"}
  /\ Range(S4) = {"dashboard", "recorder", "geo", "store"}
  /\ Range(C3) = {"cancel", "recorder", "geo", "store"}
  /\ Range(C4) = {"cancel", "dashboard", "recorder", "geo", "store"}
  /\ S0 = <<>>
  /\ S1 # <<>> /\ Head(S1) = "store" /\ Tail(S1) = S0
  /\ S2 # <<>> /\ Head(S2) = "geo" /\ Tail(S2) = S1
  /\ S3 # <<>> /\ Head(S3) = "recorder" /\ Tail(S3) = S2
  /\ S4 # <<>> /\ Head(S4) = "dashboard" /\ Tail(S4) = S3
  /\ C3 # <<>> /\ Head(C3) = "cancel" /\ Tail(C3) = S3
  /\ C4 # <<>> /\ Head(C4) = "cancel" /\ Tail(C4) = S4
<1>0. S0 \in Seq(Calls) /\ Range(S0) = {} /\ S0 = <<>>
  BY DEF S0, Range
<1>1. /\ S1 \in Seq(Calls) /\ S1 # <<>> /\ Head(S1) = "store" /\ Tail(S1) = S0
      /\ Range(S1) = {"store"}
  <2>1. "store" \in Calls /\ S0 \in Seq(Calls)
    BY <1>0 DEF Calls
  <2>2. /\ S1 \in Seq(Calls) /\ S1 # <<>> /\ Head(S1) = "store" /\ Tail(S1) = S0
        /\ Range(S1) = {"store"} \cup Range(S0)
    BY <2>1, Push DEF S1
  <2> QED BY <1>0, <2>2
<1>2. /\ S2 \in Seq(Calls) /\ S2 # <<>> /\ Head(S2) = "geo" /\ Tail(S2) = S1
      /\ Range(S2) = {"geo", "store"}
  <2>1. "geo" \in Calls /\ S1 \in Seq(Calls)
    BY <1>1 DEF Calls
  <2>2. /\ S2 \in Seq(Calls) /\ S2 # <<>> /\ Head(S2) = "geo" /\ Tail(S2) = S1
        /\ Range(S2) = {"geo"} \cup Range(S1)
    BY <2>1, Push DEF S2
  <2> QED BY <1>1, <2>2
<1>3. /\ S3 \in Seq(Calls) /\ S3 # <<>> /\ Head(S3) = "recorder" /\ Tail(S3) = S2
      /\ Range(S3) = {"recorder", "geo", "store"}
  <2>1. "recorder" \in Calls /\ S2 \in Seq(Calls)
    BY <1>2 DEF Calls
  <2>2. /\ S3 \in Seq(Calls) /\ S3 # <<>> /\ Head(S3) = "recorder" /\ Tail(S3) = S2
        /\ Range(S3) = {"recorder"} \cup Range(S2)
    BY <2>1, Push DEF S3
  <2> QED BY <1>2, <2>2
<1>4. /\ S4 \in Seq(Calls) /\ S4 # <<>> /\ Head(S4) = "dashboard" /\ Tail(S4) = S3
      /\ Range(S4) = {"dashboard", "recorder", "geo", "store"}
  <2>1. "dashboard" \in Calls /\ S3 \in Seq(Calls)
    BY <1>3 DEF Calls
  <2>2. /\ S4 \in Seq(Calls) /\ S4 # <<>> /\ Head(S4) = "dashboard" /\ Tail(S4) = S3
        /\ Range(S4) = {"dashboard"} \cup Range(S3)
    BY <2>1, Push DEF S4
  <2> QED BY <1>3, <2>2
<1>5. /\ C3 \in Seq(Calls) /\ C3 # <<>> /\ Head(C3) = "cancel" /\ Tail(C3) = S3
      /\ Range(C3) = {"cancel", "recorder", "geo", "store"}
  <2>1. "cancel" \in Calls /\ S3 \in Seq(Calls)
    BY <1>3 DEF Calls
  <2>2. /\ C3 \in Seq(Calls) /\ C3 # <<>> /\ Head(C3) = "cancel" /\ Tail(C3) = S3
        /\ Range(C3) = {"cancel"} \cup Range(S3)
    BY <2>1, Push DEF C3
  <2> QED BY <1>3, <2>2
<1>6. /\ C4 \in Seq(Calls) /\ C4 # <<>> /\ Head(C4) = "cancel" /\ Tail(C4) = S4
      /\ Range(C4) = {"cancel", "dashboard", "recorder", "geo", "store"}
  <2>1. "cancel" \in Calls /\ S4 \in Seq(Calls)
    BY <1>4 DEF Calls
  <2>2. /\ C4 \in Seq(Calls) /\ C4 # <<>> /\ Head(C4) = "cancel" /\ Tail(C4) = S4
        /\ Range(C4) = {"cancel"} \cup Range(S4)
    BY <2>1, Push DEF C4
  <2> QED BY <1>4, <2>2
<1> QED BY <1>0, <1>1, <1>2, <1>3, <1>4, <1>5, <1>6

\* The stages, each with the next.
LEMMA StageOrder ==
  /\ Range(Stages) = {"store", "load", "geo", "recorder", "dashboard"}
  /\ Len(Stages) = 5
  /\ Stage("store") = 1 /\ Stage("load") = 2 /\ Stage("geo") = 3
  /\ Stage("recorder") = 4 /\ Stage("dashboard") = 5
  /\ Stages[1 + 1] = "load" /\ Stages[2 + 1] = "geo"
  /\ Stages[3 + 1] = "recorder" /\ Stages[4 + 1] = "dashboard"
<1>1. DOMAIN Stages = 1 .. 5 /\ Len(Stages) = 5
  BY DEF Stages
<1>2. /\ Stages[1] = "store" /\ Stages[2] = "load" /\ Stages[3] = "geo"
      /\ Stages[4] = "recorder" /\ Stages[5] = "dashboard"
  BY DEF Stages
<1>3. \A i \in 1 .. 5 : i = 1 \/ i = 2 \/ i = 3 \/ i = 4 \/ i = 5
  OBVIOUS
<1>4. Range(Stages) = {"store", "load", "geo", "recorder", "dashboard"}
  BY <1>1, <1>2, <1>3 DEF Range
<1>5. /\ Stage("store") = 1 /\ Stage("load") = 2 /\ Stage("geo") = 3
      /\ Stage("recorder") = 4 /\ Stage("dashboard") = 5
  BY <1>1, <1>2, <1>3 DEF Stage
<1> QED BY <1>1, <1>2, <1>4, <1>5

\* Every server is in the list, and the API is none of them.
LEMMA ServerList ==
  /\ Len(DnsServers) \in Nat /\ Len(DnsServers) >= 1
  /\ \A i \in 1 .. Len(DnsServers) : DnsServers[i] \in Servers
  /\ \A s \in Servers : \E i \in 1 .. Len(DnsServers) : DnsServers[i] = s
  /\ Api \notin Servers /\ Servers \subseteq Listeners /\ Api \in Listeners
  /\ \A q \in Queries : Via[q] \in Servers
<1>1. DnsServers \in Seq(Servers) /\ DnsServers # <<>>
  BY LifecycleAssumption
<1>2. Len(DnsServers) \in Nat /\ Len(DnsServers) >= 1 /\ DOMAIN DnsServers = 1 .. Len(DnsServers)
  BY <1>1
<1> QED BY <1>1, <1>2, LifecycleAssumption DEF Servers, Listeners, Range

-----------------------------------------------------------------------------
(* Each action keeps the invariant.                                        *)

\* When the deferred calls run, every handler waited for has returned.
LEMMA AllDone ==
  ASSUME TypeOK, Early, Turns, pc = "defers", NEW q \in Waited
  PROVE  qpc[q] = "done"
<1>1. q \in Queries /\ qpc[q] # "none" /\ Via[q] \notin missed
      /\ qpc[q] \in {"none", "handling", "reply", "done"} /\ Via[q] \in Listeners
  BY ServerList DEF Waited, TypeOK
<1>2. result # "startup"
  BY <1>1 DEF Early
<1>3. turn = Len(DnsServers) + 1
  BY <1>2 DEF Turns, AllShut
<1>4. PICK i \in 1 .. turn - 1 : DnsServers[i] = Via[q]
  BY <1>1, <1>3, ServerList
<1>5. ~Busy(Via[q])
  BY <1>1, <1>4 DEF Turns, Finished
<1> QED BY <1>1, <1>5 DEF Busy

\* A stage fails, or leaves its call in front of the others.
LEMMA OpenIInv ==
  ASSUME IInv, NEW c \in Range(Stages), Running, Open(c)
  PROVE  IInv'
<1> USE DEF IInv, main, net, work, log
<1>1. c \in {"store", "load", "geo", "recorder", "dashboard"} /\ pc = c
  BY StageOrder DEF Open
<1>2. /\ UNCHANGED <<apiOn, outcome, turn, signalled, cancelled, serveErr, listener, missed>>
      /\ UNCHANGED outlived
      /\ UNCHANGED <<qpc, rpc, status, dropped, phase, owed>>
      /\ phase = "open"
  BY <1>1 DEF Open, Recording, TypeOK, Log!TypeOK
<1>3. \/ /\ UNCHANGED result
         /\ open' = open \cup ({c} \ {"load"})
         /\ \/ c = "store" /\ pc' = "load" /\ defers' = S1
            \/ c = "load" /\ pc' = "geo" /\ defers' = S1
            \/ c = "geo" /\ pc' = "recorder" /\ defers' = S2
            \/ c = "recorder" /\ pc' = "dashboard" /\ defers' = S3
            \/ c = "dashboard" /\ pc' = "serve" /\ defers' = S4
      \/ /\ UNCHANGED <<open, defers>>
         /\ result' = "startup" /\ pc' = "defers"
  <2>1. CASE Fail
    BY <2>1 DEF Fail, Return
  <2>2. CASE Started(c) /\ defers' = IF c = "load" THEN defers ELSE Defer(c)
    <3>1. /\ c = "store" => pc' = "load"
          /\ c = "load" => pc' = "geo"
          /\ c = "geo" => pc' = "recorder"
          /\ c = "recorder" => pc' = "dashboard"
          /\ c = "dashboard" => pc' = "serve"
      BY <2>2, StageOrder DEF Started
    <3>2. /\ c = "store" => defers' = S1
          /\ c = "load" => defers' = S1
          /\ c = "geo" => defers' = S2
          /\ c = "recorder" => defers' = S3
          /\ c = "dashboard" => defers' = S4
      BY <1>1, <2>2 DEF Defer, Stack, S1, S2, S3, S4
    <3> QED BY <1>1, <2>2, <3>1, <3>2 DEF Started
  <2> QED BY <2>1, <2>2 DEF Open
<1>4. Stack'
  BY <1>1, <1>3, Stacks DEF Stack
<1>5. TypeOK'
  BY <1>1, <1>2, <1>3, <1>4, StageOrder DEF TypeOK, Log!TypeOK, Stack
<1>6. Early'
  BY <1>1, <1>2, <1>3 DEF Early, Starting
<1>7. Turns'
  BY <1>1, <1>2, <1>3, ServerList DEF Turns, Starting, AllShut, Finished, Busy
<1>8. Recording'
  BY <1>1, <1>2, <1>3 DEF Recording, AllShut, Waited
<1>9. Ended'
  BY <1>1, <1>2 DEF Ended, Running
<1> QED BY <1>4, <1>5, <1>6, <1>7, <1>8, <1>9

\* Nothing is opened.
LEMMA SkipApiIInv ==
  ASSUME IInv, SkipApi
  PROVE  IInv'
<1> USE DEF IInv, main, net, work, log, SkipApi
<1>1. TypeOK'
  BY DEF TypeOK, Log!TypeOK, Stack
<1>2. Stack'
  BY DEF Stack
<1>3. Early'
  BY DEF Early, Starting
<1>4. Turns'
  BY DEF Turns, Starting, AllShut, Finished, Busy
<1>5. Recording'
  BY DEF Recording, AllShut, Waited
<1>6. Ended'
  BY DEF Ended, Running
<1> QED BY <1>1, <1>2, <1>3, <1>4, <1>5, <1>6

\* The listeners have only just been started.
LEMMA ServeIInv ==
  ASSUME IInv, Serve
  PROVE  IInv'
<1> USE DEF IInv, main, net, work, log, Serve, Defer
<1>1. TypeOK'
  BY Stacks DEF TypeOK, Log!TypeOK, Stack, C3, C4
<1>2. Stack'
  BY SMTT(30), Stacks DEF Stack, C3, C4
<1>3. Early'
  BY ServerList DEF Early, Starting, TypeOK
<1>4. Turns'
  BY ServerList DEF Turns, Starting, AllShut, Finished, Busy
<1>5. Recording'
  BY DEF Recording, AllShut, Waited
<1>6. Ended'
  BY DEF Ended, Running
<1> QED BY <1>1, <1>2, <1>3, <1>4, <1>5, <1>6

\* A server that starts late is one that Shutdown missed.
LEMMA BindIInv ==
  ASSUME IInv, NEW l \in Listeners, Bind(l)
  PROVE  IInv'
<1> USE DEF IInv, main, net, work, log, Bind, SetListener
<1>1. TypeOK'
  BY DEF TypeOK, Log!TypeOK, Stack
<1>2. Stack'
  BY DEF Stack
<1>3. Early'
  BY ServerList DEF Early, Starting, TypeOK
<1>4. Turns'
  BY ServerList DEF Turns, Starting, AllShut, Finished, Busy, TypeOK
<1>5. Recording'
  BY DEF Recording, AllShut, Waited
<1>6. Ended'
  BY DEF Ended, Running
<1> QED BY <1>1, <1>2, <1>3, <1>4, <1>5, <1>6

\* A listener that breaks serves no longer.
LEMMA BreakIInv ==
  ASSUME IInv, NEW l \in Listeners, Break(l)
  PROVE  IInv'
<1> USE DEF IInv, main, net, work, log, Break, SetListener
<1>1. TypeOK'
  BY DEF TypeOK, Log!TypeOK, Stack
<1>2. Stack'
  BY DEF Stack
<1>3. Early'
  BY ServerList DEF Early, Starting, TypeOK
<1>4. Turns'
  BY ServerList DEF Turns, Starting, AllShut, Finished, Busy, TypeOK
<1>5. Recording'
  BY DEF Recording, AllShut, Waited
<1>6. Ended'
  BY DEF Ended, Running
<1> QED BY <1>1, <1>2, <1>3, <1>4, <1>5, <1>6

\* Nor does one that has reported it.
LEMMA ReportIInv ==
  ASSUME IInv, NEW l \in Listeners, Report(l)
  PROVE  IInv'
<1> USE DEF IInv, main, net, work, log, Report, SetListener
<1>1. TypeOK'
  BY DEF TypeOK, Log!TypeOK, Stack
<1>2. Stack'
  BY DEF Stack
<1>3. Early'
  BY ServerList DEF Early, Starting, TypeOK
<1>4. Turns'
  BY ServerList DEF Turns, Starting, AllShut, Finished, Busy, TypeOK
<1>5. Recording'
  BY DEF Recording, AllShut, Waited
<1>6. Ended'
  BY DEF Ended, Running
<1> QED BY <1>1, <1>2, <1>3, <1>4, <1>5, <1>6

\* Only ctx changes.
LEMMA SignalIInv ==
  ASSUME IInv, Signal
  PROVE  IInv'
<1> USE DEF IInv, main, net, work, log, Signal
<1>1. TypeOK'
  BY DEF TypeOK, Log!TypeOK, Stack
<1>2. Stack'
  BY DEF Stack
<1>3. Early'
  BY DEF Early, Starting
<1>4. Turns'
  BY DEF Turns, Starting, AllShut, Finished, Busy
<1>5. Recording'
  BY DEF Recording, AllShut, Waited
<1>6. Ended'
  BY DEF Ended, Running
<1> QED BY <1>1, <1>2, <1>3, <1>4, <1>5, <1>6

\* A server whose turn is over receives nothing.
LEMMA ReceiveIInv ==
  ASSUME IInv, NEW q \in Queries, Receive(q)
  PROVE  IInv'
<1> USE DEF IInv, main, net, work, log, Receive, QueryAt
<1>1. TypeOK'
  BY DEF TypeOK, Log!TypeOK, Stack
<1>2. Stack'
  BY DEF Stack
<1>3. Early'
  BY ServerList DEF Early, Starting, TypeOK
<1>4. Turns'
  BY ServerList DEF Turns, Starting, AllShut, Finished, Busy, TypeOK
<1>5. Recording'
  BY DEF Recording, AllShut, Waited, TypeOK
<1>6. Ended'
  BY DEF Ended, Running
<1> QED BY <1>1, <1>2, <1>3, <1>4, <1>5, <1>6

\* A handler waited for finds the recorder open.
LEMMA EnqueueIInv ==
  ASSUME IInv, NEW q \in Queries, Enqueue(q)
  PROVE  IInv'
<1> USE DEF IInv, main, net, work, log, Enqueue, QueryAt, Log!Offer
<1>1. TypeOK'
  BY DEF TypeOK, Log!TypeOK, Log!Statuses, Stack
<1>2. Stack'
  BY DEF Stack
<1>3. Early'
  BY ServerList DEF Early, Starting, TypeOK
<1>4. Turns'
  BY ServerList DEF Turns, Starting, AllShut, Finished, Busy, TypeOK
<1>5. Recording'
  BY AllDone DEF Recording, AllShut, Waited, TypeOK, Log!TypeOK
<1>6. Ended'
  BY DEF Ended, Running
<1> QED BY <1>1, <1>2, <1>3, <1>4, <1>5, <1>6

\* The entry stays where the recorder has it.
LEMMA ReplyIInv ==
  ASSUME IInv, NEW q \in Queries, Reply(q)
  PROVE  IInv'
<1> USE DEF IInv, main, net, work, log, Reply, QueryAt
<1>1. TypeOK'
  BY DEF TypeOK, Log!TypeOK, Stack
<1>2. Stack'
  BY DEF Stack
<1>3. Early'
  BY ServerList DEF Early, Starting, TypeOK
<1>4. Turns'
  BY ServerList DEF Turns, Starting, AllShut, Finished, Busy, TypeOK
<1>5. Recording'
  BY DEF Recording, AllShut, Waited, TypeOK
<1>6. Ended'
  BY DEF Ended, Running
<1> QED BY <1>1, <1>2, <1>3, <1>4, <1>5, <1>6

\* A settled entry is in the database or in the drop counter.
LEMMA RecordIInv ==
  ASSUME IInv, NEW q \in Queries, Record(q)
  PROVE  IInv'
<1> USE DEF IInv, main, net, work, log, Record, Log!Settle
<1>1. TypeOK'
  BY DEF TypeOK, Log!TypeOK, Log!Statuses, Stack
<1>2. Stack'
  BY DEF Stack
<1>3. Early'
  BY DEF Early, Starting
<1>4. Turns'
  BY DEF Turns, Starting, AllShut, Finished, Busy
<1>5. Recording'
  BY DEF Recording, AllShut, Waited, TypeOK, Log!TypeOK
<1>6. Ended'
  BY DEF Ended, Running
<1> QED BY <1>1, <1>2, <1>3, <1>4, <1>5, <1>6

\* Requests to the API touch none of this.
LEMMA RequestIInv ==
  ASSUME IInv, NEW r \in Requests, Request(r)
  PROVE  IInv'
<1> USE DEF IInv, main, net, work, log, Request
<1>1. TypeOK'
  BY DEF TypeOK, Log!TypeOK, Stack
<1>2. Stack'
  BY DEF Stack
<1>3. Early'
  BY DEF Early, Starting
<1>4. Turns'
  BY DEF Turns, Starting, AllShut, Finished, Busy
<1>5. Recording'
  BY DEF Recording, AllShut, Waited
<1>6. Ended'
  BY DEF Ended, Running
<1> QED BY <1>1, <1>2, <1>3, <1>4, <1>5, <1>6

\* The first turn is that of the first server.
LEMMA WaitIInv ==
  ASSUME IInv, Wait
  PROVE  IInv'
<1> USE DEF IInv, main, net, work, log, Wait
<1>1. TypeOK'
  BY DEF TypeOK, Log!TypeOK, Stack
<1>2. Stack'
  BY DEF Stack
<1>3. Early'
  BY DEF Early, Starting
<1>4. Turns'
  BY ServerList DEF Turns, Starting, AllShut, Finished, Busy
<1>5. Recording'
  BY DEF Recording, AllShut, Waited
<1>6. Ended'
  BY DEF Ended, Running
<1> QED BY <1>1, <1>2, <1>3, <1>4, <1>5, <1>6

\* The turn passes when the server is missed or has finished.
LEMMA ShutdownDnsIInv ==
  ASSUME IInv, ShutdownDns
  PROVE  IInv'
<1> USE DEF IInv, main, net, work, log
<1>0. PICK s \in Servers : s = DnsServers[turn]
  BY ServerList DEF Turns, TypeOK, ShutdownDns
<1>1. /\ turn \in 1 .. Len(DnsServers) /\ Len(DnsServers) \in Nat
      /\ s \in Listeners /\ pc = "shutdown" /\ result # "startup"
  BY ServerList DEF Turns, TypeOK, ShutdownDns, Early
<1>2. /\ UNCHANGED <<apiOn, open, defers, result, outcome, signalled, cancelled, serveErr>>
      /\ UNCHANGED <<qpc, rpc, status, dropped, phase, owed, outlived>>
      /\ pc' \in {"shutdown", "apiShutdown", "defers"} /\ missed' \in {missed, missed \cup {s}}
  BY <1>0 DEF ShutdownDns, NextServer
<1>3. /\ \/ turn' = turn /\ pc' = pc
         \/ /\ turn' = turn + 1 /\ (s \in missed' \/ Finished(s)')
            /\ IF turn + 1 <= Len(DnsServers) THEN pc' = "shutdown"
               ELSE pc' \in {"apiShutdown", "defers"}
      /\ \A l \in Listeners : listener'[l] # listener[l] =>
           l = s /\ listener[l] \in {"listening", "draining"}
                 /\ listener'[l] \in {"draining", "stopped"}
      /\ listener' \in [Listeners -> {"none", "starting", "listening", "broken", "failed",
                                      "draining", "stopped"}]
  <2> USE <1>0, <1>1, <1>2 DEF TypeOK, Finished, Busy
  <2>1. CASE listener[s] = "starting"
    BY <2>1 DEF ShutdownDns, NextServer
  <2>2. CASE listener[s] = "listening"
    BY <2>2 DEF ShutdownDns, SetListener
  <2>3. CASE listener[s] = "draining"
    BY <2>3 DEF ShutdownDns, NextServer
  <2>4. CASE listener[s] \in {"broken", "failed"}
    BY <2>4 DEF ShutdownDns, NextServer
  <2> QED BY <2>1, <2>2, <2>3, <2>4 DEF ShutdownDns
<1>4. TypeOK'
  BY <1>1, <1>2, <1>3 DEF TypeOK, Log!TypeOK
<1>5. Stack'
  BY <1>1, <1>2 DEF Stack
<1>6. Early'
  BY <1>1, <1>2, <1>3, ServerList DEF Early, Starting
<1>7. Turns'
  <2>1. \A i \in 1 .. turn - 1 : (DnsServers[i] \in missed \/ Finished(DnsServers[i]))'
    BY <1>1, <1>2, <1>3, ServerList DEF Turns, Finished, Busy
  <2>2. \A i \in 1 .. turn' - 1 : (DnsServers[i] \in missed \/ Finished(DnsServers[i]))'
    <3>1. CASE turn' = turn
      BY <2>1, <3>1
    <3>2. CASE turn' = turn + 1 /\ (s \in missed' \/ Finished(s)')
      <4>1. \A i \in 1 .. turn' - 1 : i \in 1 .. turn - 1 \/ i = turn
        BY <1>1, <3>2
      <4> QED BY <1>0, <2>1, <3>2, <4>1
    <3> QED BY <1>3, <3>1, <3>2
  <2>3. /\ (Starting \/ pc = "wait" => turn = 1)'
        /\ (pc = "shutdown" => turn <= Len(DnsServers))'
        /\ (AllShut => turn = Len(DnsServers) + 1)'
    BY <1>1, <1>2, <1>3 DEF Turns, Starting, AllShut
  <2> QED BY <2>2, <2>3 DEF Turns
<1>8. Recording'
  BY <1>1, <1>2 DEF Recording, Stack, AllShut, Waited
<1>9. Ended'
  BY <1>1, <1>2 DEF Ended, Running
<1> QED BY <1>4, <1>5, <1>6, <1>7, <1>8, <1>9

\* The DNS servers had their turns before.
LEMMA ShutdownApiIInv ==
  ASSUME IInv, ShutdownApi
  PROVE  IInv'
<1> USE DEF IInv, main, net, work, log
<1>1. /\ UNCHANGED <<apiOn, open, defers, result, outcome, turn, signalled, cancelled>>
      /\ UNCHANGED <<serveErr, missed, qpc, rpc, status, dropped, phase, owed>>
      /\ pc = "apiShutdown" /\ pc' \in {"apiShutdown", "defers"} /\ result # "startup"
      /\ outlived' \in SUBSET Requests
  BY DEF ShutdownApi, ApiTimeout, Early, TypeOK
<1>2. /\ \A l \in Listeners : l # Api => listener'[l] = listener[l]
      /\ listener[Api] = "none" => listener'[Api] = "none"
      /\ listener' \in [Listeners -> {"none", "starting", "listening", "broken", "failed",
                                      "draining", "stopped"}]
  BY ServerList DEF ShutdownApi, SetListener, TypeOK
<1>3. TypeOK'
  BY <1>1, <1>2 DEF TypeOK, Log!TypeOK
<1>4. Stack'
  BY <1>1 DEF Stack
<1>5. Early'
  BY <1>1, <1>2, ServerList DEF Early, Starting
<1>6. Turns'
  <2>1. turn = Len(DnsServers) + 1 /\ Len(DnsServers) \in Nat
    BY <1>1, ServerList DEF Turns, AllShut
  <2>2. \A i \in 1 .. turn - 1 : listener'[DnsServers[i]] = listener[DnsServers[i]]
    BY <1>2, <2>1, ServerList
  <2> QED BY <1>1, <2>1, <2>2 DEF Turns, Starting, AllShut, Finished, Busy
<1>7. Recording'
  BY <1>1 DEF Recording, Stack, AllShut, Waited
<1>8. Ended'
  BY <1>1 DEF Ended, Running
<1> QED BY <1>3, <1>4, <1>5, <1>6, <1>7, <1>8

\* The recorder closes when it owes nothing, then GeoIP, then the store.
LEMMA RunDeferredIInv ==
  ASSUME IInv, RunDeferred
  PROVE  IInv'
<1> USE DEF IInv, main, net, work, log
<1>1. /\ UNCHANGED <<pc, apiOn, result, outcome, turn, signalled, serveErr, listener, missed>>
      /\ UNCHANGED <<qpc, rpc, status, dropped, owed, outlived>>
      /\ pc = "defers" /\ Running /\ defers # <<>>
  BY DEF RunDeferred, CloseRecorder, Log!BeginClose, Log!EndClose
<1>2. \/ /\ defers = S3 /\ phase = "open" /\ phase' = "closing"
         /\ UNCHANGED <<open, defers, cancelled>>
      \/ /\ defers = S3 /\ phase = "closing" /\ phase' = "closed"
         /\ \A e \in owed : status[e] \in {"stored", "dropped"}
         /\ open' = open \ {"recorder"} /\ defers' = S2 /\ UNCHANGED cancelled
      \/ /\ \/ defers = S1 /\ defers' = S0 /\ open' = open \ {"store"}
            \/ defers = S2 /\ defers' = S1 /\ open' = open \ {"geo"}
            \/ defers = S4 /\ defers' = S3 /\ open' = open \ {"dashboard"}
            \/ defers = C3 /\ defers' = S3 /\ open' = open \ {"cancel"}
            \/ defers = C4 /\ defers' = S4 /\ open' = open \ {"cancel"}
         /\ cancelled' \in BOOLEAN /\ UNCHANGED phase
  <2> USE <1>1, Stacks
  <2>0. defers \in {S1, S2, S3, S4, C3, C4}
    BY DEF Stack
  <2>1. CASE defers = S3
    BY <2>1 DEF RunDeferred, CloseRecorder, Log!BeginClose, Log!EndClose
  <2>2. CASE defers \in {S1, S2, S4, C3, C4}
    <3>1. Head(defers) # "recorder"
      BY <2>2
    <3>2. /\ open' = open \ {Head(defers)} /\ cancelled' = (cancelled \/ Head(defers) = "cancel")
          /\ defers' = Tail(defers) /\ UNCHANGED phase
      BY <3>1 DEF RunDeferred
    <3>3. cancelled' \in BOOLEAN
      BY <3>2 DEF TypeOK
    <3> QED BY <2>2, <3>2, <3>3
  <2> QED BY <2>0, <2>1, <2>2
<1>3. Stack'
  BY SMTT(30), <1>1, <1>2, Stacks DEF Stack
<1>4. TypeOK'
  BY <1>1, <1>2, <1>3 DEF TypeOK, Log!TypeOK, Stack
<1>5. Early'
  BY <1>1 DEF Early, Starting
<1>6. Turns'
  BY <1>1 DEF Turns, Starting, AllShut, Finished, Busy
<1>7. Recording'
  BY <1>1, <1>2, Stacks DEF Recording, AllShut, Waited
<1>8. Ended'
  BY <1>1 DEF Ended, Running
<1> QED BY <1>3, <1>4, <1>5, <1>6, <1>7, <1>8

\* run returns when no deferred call is left.
LEMMA ExitIInv ==
  ASSUME IInv, Exit
  PROVE  IInv'
<1> USE DEF IInv, main, net, work, log, Exit
<1>1. TypeOK'
  BY DEF TypeOK, Log!TypeOK, Stack
<1>2. Stack'
  BY DEF Stack
<1>3. Early'
  BY DEF Early, Starting
<1>4. Turns'
  BY DEF Turns, Starting, AllShut, Finished, Busy
<1>5. Recording'
  BY DEF Recording, AllShut, Waited
<1>6. Ended'
  BY Stacks DEF Ended, Running
<1> QED BY <1>1, <1>2, <1>3, <1>4, <1>5, <1>6

-----------------------------------------------------------------------------
(* What follows.                                                           *)

\* Every behaviour stays in the inductive invariant: it holds at the start,
\* and each action keeps it.
THEOREM Inductive == Spec => []IInv
<1>1. Init => IInv
  <2> SUFFICES ASSUME Init PROVE IInv
    OBVIOUS
  <2> USE DEF Init, Log!Init
  <2>1. TypeOK
    <3>1. defers = S0 /\ Range(defers) = {} /\ pc \in Range(Stages)
      BY StageOrder, Stacks
    <3>2. turn \in 1 .. Len(DnsServers) + 1 /\ 0 \in Nat
      BY ServerList
    <3>3. Log!TypeOK
      BY <3>2 DEF Log!TypeOK, Log!Statuses
    <3>4. Range(defers) \ {"cancel"} \subseteq open /\ apiOn \in BOOLEAN
      BY <3>1
    <3> QED BY <3>1, <3>2, <3>3, <3>4 DEF TypeOK
  <2>2. Stack
    BY Stacks DEF Stack
  <2>3. Early
    BY ServerList DEF Early
  <2>4. Turns
    BY ServerList DEF Turns, AllShut
  <2>5. Recording
    BY DEF Recording, AllShut, Waited
  <2>6. Ended
    BY DEF Ended, Running
  <2> QED BY <2>1, <2>2, <2>3, <2>4, <2>5, <2>6 DEF IInv
<1>2. IInv /\ [Next]_vars => IInv'
  <2> SUFFICES ASSUME IInv, [Next]_vars PROVE IInv'
    OBVIOUS
  <2>1. CASE Main
    BY <2>1, OpenIInv, SkipApiIInv, ServeIInv, WaitIInv, ShutdownDnsIInv, ShutdownApiIInv,
       RunDeferredIInv, ExitIInv DEF Main, Startup
  <2>2. ASSUME NEW l \in Listeners, Bind(l) \/ Break(l) \/ Report(l) PROVE IInv'
    BY <2>2, BindIInv, BreakIInv, ReportIInv
  <2>3. CASE Signal
    BY <2>3, SignalIInv
  <2>4. ASSUME NEW q \in Queries, Receive(q) \/ Query(q) \/ Record(q) PROVE IInv'
    BY <2>4, ReceiveIInv, EnqueueIInv, ReplyIInv, RecordIInv DEF Query
  <2>5. ASSUME NEW r \in Requests, Request(r) PROVE IInv'
    BY <2>5, RequestIInv
  <2>6. CASE UNCHANGED vars
    BY <2>6 DEF vars, main, net, work, log, IInv, TypeOK, Log!TypeOK, Stack, Early, Starting,
                Turns, AllShut, Finished, Busy, Recording, Waited, Ended, Running
  <2> QED BY <2>1, <2>2, <2>3, <2>4, <2>5, <2>6 DEF Next
<1> QED BY <1>1, <1>2, PTL DEF Spec

\* The API server serves with every component open; when the deferred calls run
\* it accepts no more, and the requests Shutdown waited for have ended.
Requesting ==
  /\ ~apiOn => listener[Api] = "none"
  /\ listener[Api] = "none" => \A r \in Requests : rpc[r] = "none"
  /\ apiOn /\ pc = "serve" => defers = S4
  /\ apiOn /\ pc \in {"wait", "shutdown", "apiShutdown"} => defers = C4
  /\ pc = "defers" =>
       /\ listener[Api] \notin {"starting", "listening"}
       /\ \A r \in Requests \ outlived : rpc[r] # "running"

\* Startup and the servers' turns: no request, or the API server is next.
LEMMA MainRequesting ==
  ASSUME IInv, Requesting, Main
  PROVE  Requesting'
<1> USE ServerList, Stacks DEF IInv, Requesting, main, net, work, log, TypeOK
<1>1. ASSUME NEW c \in Range(Stages), c = "dashboard" => apiOn, Open(c) PROVE Requesting'
  <2>1. /\ pc = c /\ UNCHANGED <<apiOn, listener, rpc, outlived>>
        /\ listener[Api] = "none"
    BY <1>1, StageOrder DEF Open, Early, Starting
  <2>2. c \in {"store", "load", "geo", "recorder", "dashboard"}
    BY StageOrder
  <2>3. CASE Fail
    BY <2>1, <2>3 DEF Fail, Return
  <2>4. CASE Started(c) /\ defers' = IF c = "load" THEN defers ELSE Defer(c)
    <3>1. pc' = "serve" => c = "dashboard"
      BY <2>4, StageOrder DEF Started
    <3>2. pc' \in {"load", "geo", "recorder", "dashboard", "serve"}
      <4>1. /\ c = "store" => pc' = "load"
            /\ c = "load" => pc' = "geo"
            /\ c = "geo" => pc' = "recorder"
            /\ c = "recorder" => pc' = "dashboard"
            /\ c = "dashboard" => pc' = "serve"
        BY <2>4, StageOrder DEF Started
      <4> QED BY <2>2, <4>1
    <3>3. c = "dashboard" => defers' = S4
      BY <2>1, <2>4 DEF Defer, Stack, S4
    <3> QED BY <2>1, <3>1, <3>2, <3>3
  <2> QED BY <1>1, <2>3, <2>4 DEF Open
<1>2. CASE SkipApi
  BY <1>2 DEF SkipApi
<1>3. CASE Serve
  BY <1>3 DEF Serve, Defer, Stack, C4, Early, Starting
<1>4. CASE Wait
  BY <1>4 DEF Wait
<1>5. CASE ShutdownDns
  <2>1. /\ UNCHANGED <<apiOn, defers, rpc, outlived>> /\ listener'[Api] = listener[Api]
        /\ pc = "shutdown" /\ pc' \in {"shutdown", "apiShutdown", "defers"}
        /\ pc' = "defers" => ~apiOn
    <3>1. DnsServers[turn] \in Servers
      BY <1>5 DEF ShutdownDns, Turns
    <3> QED BY <1>5, <3>1 DEF ShutdownDns, NextServer, SetListener
  <2> QED BY <2>1
<1>6. CASE ShutdownApi
  BY <1>6 DEF ShutdownApi, ApiTimeout, SetListener
<1>7. CASE RunDeferred
  <2>1. UNCHANGED <<pc, apiOn, listener, rpc, outlived>> /\ pc = "defers"
    BY <1>7 DEF RunDeferred, CloseRecorder, Log!BeginClose, Log!EndClose
  <2> QED BY <2>1
<1>8. CASE Exit
  BY <1>8 DEF Exit
<1> QED BY <1>1, <1>2, <1>3, <1>4, <1>5, <1>6, <1>7, <1>8 DEF Main, Startup

\* The other goroutines: a request begins while the API server listens.
LEMMA OthersRequesting ==
  ASSUME IInv, Requesting, [Next]_vars, ~Main
  PROVE  Requesting'
<1> USE ServerList DEF IInv, Requesting, main, net, work, log, TypeOK
<1>1. ASSUME NEW l \in Listeners, Bind(l) \/ Break(l) \/ Report(l) PROVE Requesting'
  BY <1>1 DEF Bind, Break, Report, SetListener
<1>2. CASE Signal
  BY <1>2 DEF Signal
<1>3. ASSUME NEW q \in Queries, Receive(q) \/ Query(q) \/ Record(q) PROVE Requesting'
  BY <1>3 DEF Receive, Query, Enqueue, Reply, Record
<1>4. ASSUME NEW r \in Requests, Request(r) PROVE Requesting'
  BY <1>4 DEF Request
<1>5. CASE UNCHANGED vars
  BY <1>5 DEF vars
<1> QED BY <1>1, <1>2, <1>3, <1>4, <1>5 DEF Next

\* No request that Shutdown waited for runs beside the deferred calls.
THEOREM RequestsEnd == Spec => []Requesting
<1>1. Init => Requesting
  BY ServerList, Stacks DEF Init, Requesting
<1>2. IInv /\ Requesting /\ [Next]_vars => Requesting'
  BY MainRequesting, OthersRequesting
<1> QED BY Inductive, <1>1, <1>2, PTL DEF Spec

\* The variables keep their types, and what is deferred is open.
THEOREM TypeCorrect == Spec => []TypeOK
<1>1. IInv => TypeOK
  BY DEF IInv
<1> QED BY <1>1, Inductive, PTL

\* For any number of servers, queries and requests and wherever startup stops:
\* GeoIP and the recorder stay open until every handler that Shutdown waited for
\* has returned, and every component until every API request has ended that did
\* not outlive the five seconds; GeoIP stays open as long as the recorder, the
\* store as long as any of them.  Nothing is said of the queries of a server that
\* Shutdown missed, nor of the requests that went on after the five seconds (run:
\* the deferred calls after the Shutdowns).
THEOREM ClosedAfterItsUsers == Spec => []UsersEndFirst
<1>1. IInv /\ Requesting => UsersEndFirst
  <2> SUFFICES ASSUME IInv, Requesting, Running PROVE UsersEndFirst
    BY DEF UsersEndFirst
  <2> USE Stacks DEF IInv
  <2>1. ASSUME NEW q \in Waited, qpc[q] # "done" PROVE {"geo", "recorder"} \subseteq open
    <3>1. ~Starting
      BY ZenonT(40), ServerList DEF Early, Waited
    <3>2. pc # "defers"
      BY <2>1, AllDone
    <3>3. pc \in {"wait", "shutdown", "apiShutdown"}
      BY <3>1, <3>2, StageOrder DEF TypeOK, Starting
    <3> QED BY <3>3 DEF Stack
  <2>2. defers \in {S0, S1, S2, S3, S4, C3, C4}
    BY StageOrder DEF Stack, TypeOK
  <2>3. ("recorder" \in open => "geo" \in open) /\ (open # {} => "store" \in open)
    BY <2>2 DEF Stack
  <2>4. ASSUME NEW r \in Requests \ outlived, rpc[r] = "running"
        PROVE  {"store", "geo", "recorder", "dashboard"} \subseteq open
    <3>1. listener[Api] # "none" /\ apiOn /\ pc # "defers"
      BY <2>4 DEF Requesting
    <3>2. ~Starting
      BY <3>1, ServerList DEF Early
    <3>3. pc \in {"wait", "shutdown", "apiShutdown"}
      BY <3>1, <3>2, StageOrder DEF TypeOK, Starting
    <3> QED BY <3>1, <3>3 DEF Requesting, Stack
  <2> QED BY <2>1, <2>3, <2>4 DEF UsersEndFirst
<1> QED BY <1>1, Inductive, RequestsEnd, PTL

\* When the process has ended, each query of a server that Shutdown could stop
\* has been answered, and its entry is in the database or in the drop counter
\* (ShutdownContext before the recorder's Close, which drains the queue).
THEOREM NothingAcceptedIsLost == Spec => []AnsweredIsRecorded
<1>1. IInv => AnsweredIsRecorded
  <2> SUFFICES ASSUME IInv, ~Running, NEW q \in Waited
               PROVE  qpc[q] = "done" /\ status[q] \in {"stored", "dropped"}
    BY DEF AnsweredIsRecorded
  <2> USE Stacks DEF IInv
  <2>1. pc = "defers" /\ defers = S0
    BY DEF Ended
  <2>2. qpc[q] = "done"
    BY <2>1, AllDone
  <2>3. result # "startup"
    BY ZenonT(40), ServerList DEF Early, Waited
  <2>4. phase = "closed"
    BY <2>1, <2>3 DEF Recording, AllShut, TypeOK, Log!TypeOK
  <2>5. status[q] \in {"stored", "dropped"}
    BY <2>2, <2>4 DEF Recording
  <2> QED BY <2>2, <2>5
<1> QED BY <1>1, Inductive, PTL

\* However the process ends by itself, every component that startup had opened
\* is closed, the recorder completely (run returns, it never exits in the middle).
THEOREM EveryExitCloses == Spec => []ExitClosesAll
<1>1. IInv => ExitClosesAll
  BY Stacks DEF IInv, ExitClosesAll, Ended, Stack, Recording
<1> QED BY <1>1, Inductive, PTL

=============================================================================
