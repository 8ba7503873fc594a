----------------------------- MODULE NativeProofs -----------------------------
(***************************************************************************)
(* Proofs about the native route: NativeSession for any number of calls,   *)
(* whatever they ask for, any number of failures and cancelled callers, up *)
(* to what NativeControl takes an exchange of the session to be; then      *)
(* NativeControl for any number of calls, any profile, any number of       *)
(* settlement reads and of failing reads.                                  *)
(***************************************************************************)
EXTENDS NativeControl, NativeSession, GateStateProofs, SequenceTheorems

(***************************************************************************)
(* Who holds the lock                                                      *)
(***************************************************************************)

Active == {"starting", "waiting", "stopping"}

LockInv ==
  /\ \A c \in Users : phase[c] \in Active => Holds(c)
  /\ \A c \in Users : phase[c] = "queued" => \E i \in DOMAIN queue : queue[i] = c

Serves ==
  /\ phase[Stopper] \notin {"starting", "waiting"}
  /\ \A h \in Callers : helper[h] \in {"writing", "reading"} => serving[h] \in Callers

(***************************************************************************)
(* What the session's helper still has to say.  A helper the session goes  *)
(* on with owes nobody a line, whatever became of the call before: this is *)
(* what LineIsOwn rests on.                                                *)
(***************************************************************************)

(* Nothing was started for the call yet. *)
Fresh(h) ==
  /\ helper[h] = "absent" /\ stdin[h] = <<>> /\ stdout[h] = <<>>
  /\ process # h /\ \A c \in Users : ending[c] # h

(* Its first line is all the helper has to say. *)
Greets(h) ==
  /\ stdin[h] = <<>>
  /\ \/ helper[h] \in {"connecting", "exited"} /\ stdout[h] = <<>>
     \/ /\ helper[h] \in {"ready", "exited"}
        /\ Len(stdout[h]) = 1 /\ stdout[h][1].event = "ready"

(* The helper has one line for the call at most, and none for another. *)
Owes(h, c) ==
  \/ helper[h] = "ready" /\ stdin[h] = <<c>> /\ stdout[h] = <<>>
  \/ /\ helper[h] \in {"writing", "reading"} /\ serving[h] = c
     /\ stdin[h] = <<>> /\ stdout[h] = <<>>
  \/ /\ helper[h] \in {"ready", "exited"} /\ stdin[h] = <<>>
     /\ Len(stdout[h]) = 1 /\ stdout[h][1].event = "answer" /\ stdout[h][1].of = c
  \/ helper[h] = "exited" /\ stdout[h] = <<>>

(* The helper owes nobody anything. *)
Free(h) ==
  /\ helper[h] \in {"ready", "exited"} /\ stdout[h] = <<>>
  /\ helper[h] = "ready" => stdin[h] = <<>>

SessionInv ==
  /\ \A c \in Callers : phase[c] \in {"idle", "queued"} => Fresh(c)
  /\ \A c \in Callers : phase[c] = "starting" => process # Nobody /\ Greets(process)
  /\ \A c \in Callers : phase[c] = "waiting" => process # Nobody /\ Owes(process, c)
  /\ \A c \in Users : phase[c] = "stopping" => process = Nobody /\ ending[c] # Nobody
  /\ (\A c \in Callers : phase[c] \notin {"starting", "waiting"}) /\ process # Nobody
     => Free(process)

(***************************************************************************)
(* Where a request is before it is written: in one place at most, with a   *)
(* helper whose call waits for it, or was cancelled in that wait.          *)
(***************************************************************************)

Placed(h, i, c) ==
  /\ Alive(h)
  /\ \/ i = 0 /\ helper[h] = "writing" /\ serving[h] = c
     \/ i \in DOMAIN stdin[h] /\ stdin[h][i] = c

Accounted(h, c) ==
  \/ phase[c] = "waiting" /\ process = h
  \/ phase[c] = "stopping" /\ ending[c] = h
  \/ phase[c] = "returned" /\ outcome[c] = "cancelled"

RequestInv ==
  /\ \A c \in Callers : phase[c] \in {"idle", "queued", "starting"} => written[c] = 0
  /\ \A c, h \in Callers, i \in Nat : Placed(h, i, c) =>
       /\ written[c] = 0 /\ Accounted(h, c)
       /\ \A g \in Callers, j \in Nat : Placed(g, j, c) => g = h /\ j = i

IInv == SessionTypeOK /\ LockInv /\ Serves /\ SessionInv /\ RequestInv

-----------------------------------------------------------------------------
(***************************************************************************)
(* Types, in three parts                                                   *)
(***************************************************************************)

Phases == {"idle", "queued", "starting", "waiting", "stopping", "returned"}
SessionResults == {"none", "received", "sent", "failed", "cancelled", "stopped"}

CallsOK ==
  /\ queue \in Seq(Users)
  /\ phase \in [Users -> Phases] /\ outcome \in [Users -> SessionResults]
  /\ process \in Callers \cup {Nobody}
  /\ ending \in [Users -> Callers \cup {Nobody}]

HelpersOK ==
  /\ helper \in [Callers -> {"absent", "connecting", "ready", "writing",
                             "reading", "exited"}]
  /\ stdin \in [Callers -> Seq(Callers \cup {"QUIT"})]
  /\ stdout \in [Callers -> Seq(Line)]
  /\ serving \in [Callers -> Callers \cup {Nobody}]
  /\ wire \in [Callers -> Seq(Answer)]
  /\ written \in [Callers -> 0 .. 1]

CountersOK == failures \in 0 .. MaxFailures /\ cancels \in 0 .. MaxCancels

LEMMA TypeParts ==
  /\ SessionTypeOK => CallsOK /\ HelpersOK /\ CountersOK
  /\ (CallsOK /\ HelpersOK /\ CountersOK)' => SessionTypeOK'
BY DEF SessionTypeOK, CallsOK, HelpersOK, CountersOK, Phases, SessionResults

LEMMA Names == /\ Callers \subseteq Users /\ Stopper \in Users /\ Stopper \notin Callers
               /\ Nobody \notin Users /\ "QUIT" \notin Callers
               /\ \A c \in Users : c \in Callers \/ c = Stopper
BY NamesAssumption DEF Users

LEMMA Empty == \A S : <<>> \in Seq(S)
OBVIOUS

LEMMA EmptyPipes ==
  <<>> \in Seq(Callers \cup {"QUIT"}) /\ <<>> \in Seq(Line) /\ <<>> \in Seq(Answer)
BY Empty

LEMMA Appends ==
  ASSUME NEW S, NEW s \in Seq(S), NEW x \in S
  PROVE  /\ Append(s, x) \in Seq(S) /\ Append(s, x) # <<>>
         /\ s # <<>> => Head(Append(s, x)) = Head(s)
         /\ s = <<>> => Append(s, x) = <<x>>
         /\ \A i \in DOMAIN s : i \in DOMAIN Append(s, x) /\ Append(s, x)[i] = s[i]
         /\ \E i \in DOMAIN Append(s, x) : Append(s, x)[i] = x
         /\ \A i \in DOMAIN Append(s, x) : i \in DOMAIN s \/ (i = Len(s) + 1 /\ Append(s, x)[i] = x)
<1>1. /\ Append(s, x) \in Seq(S) /\ Append(s, x) # <<>>
      /\ s # <<>> => Head(Append(s, x)) = Head(s)
  OBVIOUS
<1>2. s = <<>> => Append(s, x) = <<x>>
  OBVIOUS
<1>3. /\ DOMAIN s = 1 .. Len(s) /\ Len(s) \in Nat
      /\ DOMAIN Append(s, x) = 1 .. Len(s) + 1
      /\ \A i \in 1 .. Len(s) : Append(s, x)[i] = s[i]
      /\ Append(s, x)[Len(s) + 1] = x
  OBVIOUS
<1>4. \A i \in DOMAIN s : i \in DOMAIN Append(s, x) /\ Append(s, x)[i] = s[i]
  BY <1>3
<1>5. \E i \in DOMAIN Append(s, x) : Append(s, x)[i] = x
  BY <1>3
<1>6. \A i \in DOMAIN Append(s, x) : i \in DOMAIN s \/ (i = Len(s) + 1 /\ Append(s, x)[i] = x)
  BY <1>3
<1> QED
  BY <1>1, <1>2, <1>4, <1>5, <1>6

LEMMA Tails ==
  ASSUME NEW S, NEW s \in Seq(S), s # <<>>
  PROVE  /\ Head(s) \in S /\ Tail(s) \in Seq(S) /\ Head(s) = s[1] /\ 1 \in DOMAIN s
         /\ \A i \in DOMAIN Tail(s) : i + 1 \in DOMAIN s /\ Tail(s)[i] = s[i + 1]
         /\ Len(s) = 1 => Tail(s) = <<>>
<1>1. Head(s) \in S /\ Tail(s) \in Seq(S) /\ Head(s) = s[1]
  OBVIOUS
<1>2. Len(s) \in Nat /\ DOMAIN s = 1 .. Len(s) /\ Len(s) > 0
  OBVIOUS
<1>3. Len(Tail(s)) = Len(s) - 1 /\ DOMAIN Tail(s) = 1 .. Len(s) - 1
      /\ \A i \in 1 .. Len(s) - 1 : Tail(s)[i] = s[i + 1]
  BY HeadTailProperties, LenProperties
<1>4. Len(s) = 1 => Tail(s) = <<>>
  BY <1>1, <1>3, EmptySeq
<1> QED
  BY <1>1, <1>2, <1>3, <1>4

LEMMA Lines ==
  /\ \A b \in BOOLEAN : [event |-> "ready", ok |-> b] \in Line
  /\ \A c \in Callers, r, s, a \in BOOLEAN :
       [event |-> "answer", of |-> c, received |-> r, sent |-> s, alive |-> a] \in Line
  /\ \A c \in Callers, r \in BOOLEAN : [of |-> c, refused |-> r] \in Answer
BY DEF Line, Answer

\* The one that leaves the queue leaves the others as they were.
LEMMA WithoutFacts ==
  ASSUME NEW S, NEW s \in Seq(S), NEW c, \E i \in DOMAIN s : s[i] = c
  PROVE  /\ Without(s, c) \in Seq(S)
         /\ \A d : d # c /\ (\E i \in DOMAIN s : s[i] = d)
              => \E i \in DOMAIN Without(s, c) : Without(s, c)[i] = d
         /\ Head(s) # c => Without(s, c) # <<>> /\ Head(Without(s, c)) = Head(s)
<1> DEFINE k == CHOOSE i \in DOMAIN s : s[i] = c
<1> DEFINE front == SubSeq(s, 1, k - 1)
<1> DEFINE back == SubSeq(s, k + 1, Len(s))
<1>1. k \in 1 .. Len(s) /\ s[k] = c
  OBVIOUS
<1>2. Without(s, c) = front \o back
  BY DEF Without
<1> HIDE DEF k
<1>3. front \in Seq(S) /\ Len(front) = k - 1 /\ \A i \in 1 .. k - 1 : front[i] = s[i]
  BY <1>1, SubSeqProperties
<1>4. back \in Seq(S) /\ Len(back) = Len(s) - k /\ \A i \in 1 .. Len(s) - k : back[i] = s[k + i]
  BY <1>1, SubSeqProperties
<1> HIDE DEF front, back
<1>5. /\ front \o back \in Seq(S) /\ Len(front \o back) = Len(s) - 1
      /\ DOMAIN (front \o back) = 1 .. Len(s) - 1 /\ DOMAIN s = 1 .. Len(s) /\ Len(s) \in Nat
      /\ \A i \in 1 .. k - 1 : (front \o back)[i] = s[i]
      /\ \A i \in k .. Len(s) - 1 : (front \o back)[i] = s[i + 1]
  <2>1. front \o back \in Seq(S) /\ Len(front \o back) = Len(front) + Len(back)
        /\ \A i \in 1 .. Len(front) + Len(back) :
             (front \o back)[i] = IF i <= Len(front) THEN front[i] ELSE back[i - Len(front)]
    BY <1>3, <1>4, ConcatProperties
  <2>2. DOMAIN (front \o back) = 1 .. Len(front \o back) /\ DOMAIN s = 1 .. Len(s) /\ Len(s) \in Nat
    BY <2>1, LenProperties
  <2>3. k \in Nat /\ Len(front) + Len(back) = Len(s) - 1
    BY <1>1, <1>3, <1>4, <2>2
  <2>4. \A i \in 1 .. k - 1 : (front \o back)[i] = s[i]
    BY <1>1, <1>3, <1>4, <2>1, <2>2, <2>3
  <2>5. ASSUME NEW i \in k .. Len(s) - 1 PROVE (front \o back)[i] = s[i + 1]
    <3>1. i - (k - 1) \in 1 .. Len(s) - k /\ k + (i - (k - 1)) = i + 1
      BY <2>2, <2>3
    <3>2. (front \o back)[i] = back[i - (k - 1)]
      BY <1>1, <1>3, <2>1, <2>2, <2>3
    <3> QED
      BY <1>4, <3>1, <3>2
  <2> QED
    BY <2>1, <2>2, <2>3, <2>4, <2>5
<1>6. ASSUME NEW d, d # c, NEW i \in DOMAIN s, s[i] = d
      PROVE  \E j \in DOMAIN (front \o back) : (front \o back)[j] = d
  <2>1. CASE i < k
    <3>1. i \in 1 .. k - 1 /\ i \in 1 .. Len(s) - 1
      BY <1>1, <1>5, <1>6, <2>1
    <3>2. (front \o back)[i] = d
      BY <1>5, <1>6, <3>1
    <3> QED
      BY <1>5, <3>1, <3>2
  <2>2. CASE i > k
    <3>1. i - 1 \in k .. Len(s) - 1 /\ i - 1 \in 1 .. Len(s) - 1 /\ (i - 1) + 1 = i
      BY <1>1, <1>5, <1>6, <2>2
    <3>2. (front \o back)[i - 1] = d
      BY <1>5, <1>6, <3>1
    <3> QED
      BY <1>5, <3>1, <3>2
  <2> QED
    BY <1>1, <1>6, <2>1, <2>2
<1>7. Head(s) # c => front \o back # <<>> /\ Head(front \o back) = Head(s)
  <2>1. ASSUME Head(s) # c PROVE k > 1 /\ Len(s) > 1
    BY <1>1, <2>1
  <2> QED
    BY <1>1, <1>5, <2>1
<1> QED
  BY <1>2, <1>5, <1>6, <1>7

\* The lock has one holder.
LEMMA Solo ==
  ASSUME LockInv, NEW c \in Users, NEW d \in Users, Holds(c), phase[d] \in Active
  PROVE  c = d
BY DEF LockInv, Holds

\* Who stands in line, when a call returns.
LEMMA Returns ==
  ASSUME CallsOK, LockInv, NEW c \in Users, phase[c] \in {"queued"} \cup Active,
         NEW how \in SessionResults, Return(c, how), ending' \in [Users -> Callers \cup {Nobody}],
         process' \in Callers \cup {Nobody}
  PROVE  /\ CallsOK' /\ LockInv'
         /\ phase' = [phase EXCEPT ![c] = "returned"] /\ outcome' = [outcome EXCEPT ![c] = how]
<1>1. \E i \in DOMAIN queue : queue[i] = c
  <2>1. CASE phase[c] \in Active
    <3>1. queue \in Seq(Users) /\ queue # <<>> /\ Head(queue) = c
      BY <2>1 DEF LockInv, Holds, CallsOK
    <3> QED
      BY <3>1, Tails
  <2> QED
    BY <2>1 DEF LockInv
<1>2. /\ queue' \in Seq(Users)
      /\ \A d : d # c /\ (\E i \in DOMAIN queue : queue[i] = d) => \E i \in DOMAIN queue' : queue'[i] = d
      /\ Head(queue) # c => queue' # <<>> /\ Head(queue') = Head(queue)
  <2>1. queue \in Seq(Users) /\ queue' = Without(queue, c)
    BY DEF CallsOK, Return
  <2> QED
    BY <1>1, <2>1, WithoutFacts
<1>3. phase' = [phase EXCEPT ![c] = "returned"] /\ outcome' = [outcome EXCEPT ![c] = how]
  BY DEF Return
<1>4. CallsOK'
  BY <1>2, <1>3 DEF CallsOK, Phases
<1>5. ASSUME NEW d \in Users, phase'[d] \in Active PROVE Holds(d)'
  <2>1. d # c /\ phase[d] \in Active
    BY <1>3, <1>5 DEF CallsOK, Active
  <2>2. Holds(d)
    BY <2>1 DEF LockInv
  <2> QED
    BY <1>2, <2>1, <2>2 DEF Holds
<1>6. ASSUME NEW d \in Users, phase'[d] = "queued" PROVE \E i \in DOMAIN queue' : queue'[i] = d
  <2>1. d # c /\ phase[d] = "queued"
    BY <1>3, <1>6 DEF CallsOK
  <2> QED
    BY <1>2, <2>1 DEF LockInv
<1> QED
  BY <1>3, <1>4, <1>5, <1>6 DEF LockInv

\* No request is put anywhere new.
LEMMA NoneAdded ==
  ASSUME RequestInv,
         \A c, h \in Callers, i \in Nat : Placed(h, i, c)' =>
           Placed(h, i, c) /\ written'[c] = written[c] /\ Accounted(h, c)',
         \A c \in Callers : phase'[c] \in {"idle", "queued", "starting"} =>
           phase[c] \in {"idle", "queued", "starting"} /\ written'[c] = written[c]
  PROVE  RequestInv'
BY DEF RequestInv

-----------------------------------------------------------------------------
(***************************************************************************)
(* The steps of the session                                                *)
(***************************************************************************)

LEMMA StopsHelper ==
  ASSUME IInv, NEW c \in Users, NEW how \in SessionResults, StopHelper(c, how), Holds(c),
         phase[c] \in {"starting", "waiting"} \/ (c = Stopper /\ phase[c] = "queued"), CountersOK'
  PROVE  IInv'
<1>0. CallsOK /\ HelpersOK /\ LockInv /\ Serves /\ SessionInv /\ RequestInv
  BY TypeParts DEF IInv
<1>a. \A d \in Users \ {c} : phase[d] \notin Active
  BY <1>0, Solo
<1>b. process # Nobody => process \in Callers
  BY <1>0 DEF CallsOK
<1>1. CASE Connected
  <2> process \in Callers /\ Alive(process)
    BY <1>1, <1>b DEF Connected
  <2>1. /\ process' = Nobody
        /\ stdin' = [stdin EXCEPT ![process] = Append(@, "QUIT")]
        /\ ending' = [ending EXCEPT ![c] = process]
        /\ phase' = [phase EXCEPT ![c] = "stopping"]
        /\ outcome' = [outcome EXCEPT ![c] = how]
        /\ UNCHANGED <<queue, stdout, helper, serving, wire, written>>
    BY <1>1 DEF StopHelper
  <2>2. CallsOK'
    BY <1>0, <2>1 DEF CallsOK, Phases
  <2>3. stdin' \in [Callers -> Seq(Callers \cup {"QUIT"})]
    <3>1. stdin[process] \in Seq(Callers \cup {"QUIT"})
      BY <1>0 DEF HelpersOK
    <3>2. Append(stdin[process], "QUIT") \in Seq(Callers \cup {"QUIT"})
      BY <3>1, Appends
    <3> QED
      BY <1>0, <2>1, <3>2 DEF HelpersOK
  <2>4. HelpersOK'
    BY <1>0, <2>1, <2>3 DEF HelpersOK
  <2>5. LockInv'
    BY <1>0, <2>1 DEF LockInv, Holds, CallsOK, Active
  <2>6. Serves'
    BY <1>0, <2>1 DEF Serves, CallsOK
  <2>7. SessionInv'
    <3>1. ASSUME NEW d \in Callers, phase'[d] \in {"idle", "queued"} PROVE Fresh(d)'
      <4>1. d # c /\ phase[d] \in {"idle", "queued"} /\ Fresh(d)
        BY <1>0, <2>1, <3>1, Names DEF CallsOK, SessionInv
      <4>2. d # process /\ d # Nobody
        BY <4>1, Names DEF Fresh
      <4> QED
        BY <1>0, <2>1, <4>1, <4>2, Names DEF Fresh, HelpersOK, CallsOK
    <3>2. \A d \in Callers : phase'[d] \notin {"starting", "waiting"}
      BY <1>0, <1>a, <2>1, Names DEF CallsOK, Active
    <3>3. \A d \in Users : phase'[d] = "stopping" => ending'[d] # Nobody
      BY <1>0, <1>a, <2>1, Names DEF CallsOK, Active
    <3> QED
      BY <2>1, <3>1, <3>2, <3>3 DEF SessionInv
  <2>8. RequestInv'
    <3>1. ASSUME NEW d \in Callers, NEW h \in Callers, NEW i \in Nat, Placed(h, i, d)'
          PROVE  Placed(h, i, d) /\ written'[d] = written[d] /\ Accounted(h, d)'
      <4>1. Placed(h, i, d)
        <5>1. stdin[h] \in Seq(Callers \cup {"QUIT"})
          BY <1>0 DEF HelpersOK
        <5>2. \A j \in DOMAIN stdin'[h] : stdin'[h][j] # "QUIT" => j \in DOMAIN stdin[h] /\ stdin[h][j] = stdin'[h][j]
          <6>1. stdin'[h] = stdin[h] \/ stdin'[h] = Append(stdin[h], "QUIT")
            BY <1>0, <2>1 DEF HelpersOK
          <6> QED
            BY <5>1, <6>1, Appends
        <5> QED
          BY <2>1, <3>1, <5>2, Names DEF Placed, Alive
      <4>2. Accounted(h, d)
        BY <1>0, <4>1 DEF RequestInv
      <4> QED
        BY <1>0, <1>a, <2>1, <4>1, <4>2, Names DEF Accounted, CallsOK, Active
    <3>2. \A d \in Callers : phase'[d] \in {"idle", "queued", "starting"} =>
             phase[d] \in {"idle", "queued", "starting"} /\ written'[d] = written[d]
      BY <1>0, <2>1, Names DEF CallsOK
    <3> QED
      BY <1>0, <3>1, <3>2, NoneAdded
  <2> QED
    BY <2>2, <2>4, <2>5, <2>6, <2>7, <2>8, TypeParts DEF IInv
<1>2. CASE ~Connected
  <2>1. /\ process' = Nobody /\ Return(c, how)
        /\ stdout' = [h \in Callers |-> IF h = process THEN <<>> ELSE stdout[h]]
        /\ UNCHANGED <<stdin, ending, helper, serving, wire, written>>
    BY <1>2 DEF StopHelper
  <2>2. CallsOK' /\ LockInv' /\ phase' = [phase EXCEPT ![c] = "returned"]
        /\ outcome' = [outcome EXCEPT ![c] = how]
    BY <1>0, <2>1, Returns DEF CallsOK, Active
  <2>3. HelpersOK'
    BY <1>0, <2>1, Empty DEF HelpersOK
  <2>4. Serves'
    BY <1>0, <2>1, <2>2 DEF Serves, CallsOK
  <2>5. SessionInv'
    <3>1. \A d \in Callers : phase'[d] \in {"idle", "queued"} => Fresh(d)'
      BY <1>0, <2>1, <2>2, Names DEF SessionInv, Fresh, CallsOK
    <3>2. \A d \in Users : phase'[d] \notin Active
      BY <1>0, <1>a, <2>2 DEF CallsOK, Active
    <3> QED
      BY <2>1, <3>1, <3>2, Names DEF SessionInv, Active
  <2>6. RequestInv'
    <3>1. ASSUME NEW d \in Callers, NEW h \in Callers, NEW i \in Nat, Placed(h, i, d)'
          PROVE  Placed(h, i, d) /\ written'[d] = written[d] /\ Accounted(h, d)'
      <4>1. Placed(h, i, d) /\ Alive(h)
        BY <2>1, <3>1 DEF Placed, Alive
      <4>2. Accounted(h, d)
        BY <1>0, <4>1 DEF RequestInv
      <4>3. d # c
        <5>1. ~(phase[d] = "waiting" /\ process = h)
          BY <1>2, <4>1, Names DEF Connected
        <5> QED
          BY <4>2, <5>1, Names DEF Accounted
      <4> QED
        BY <1>0, <1>a, <2>1, <2>2, <4>1, <4>2, <4>3, Names DEF Accounted, CallsOK, Active
    <3>2. \A d \in Callers : phase'[d] \in {"idle", "queued", "starting"} =>
             phase[d] \in {"idle", "queued", "starting"} /\ written'[d] = written[d]
      BY <1>0, <2>1, <2>2, Names DEF CallsOK
    <3> QED
      BY <1>0, <3>1, <3>2, NoneAdded
  <2> QED
    BY <2>2, <2>3, <2>4, <2>5, <2>6, TypeParts DEF IInv
<1> QED
  BY <1>1, <1>2

\* A call that never had a helper leaves the line.
LEMMA LeavesLine ==
  ASSUME IInv, NEW c \in Users, NEW how \in SessionResults, Return(c, how), phase[c] = "queued",
         process' = process \/ (process' = Nobody /\ Holds(c)),
         UNCHANGED <<ending, helpers>>, CountersOK'
  PROVE  IInv'
<1>0. CallsOK /\ HelpersOK /\ LockInv /\ Serves /\ SessionInv /\ RequestInv
  BY TypeParts DEF IInv
<1>1. UNCHANGED <<helper, stdin, stdout, serving, wire, written>>
  BY DEF helpers
<1>2. CallsOK' /\ LockInv' /\ phase' = [phase EXCEPT ![c] = "returned"]
      /\ outcome' = [outcome EXCEPT ![c] = how]
  BY <1>0, Returns DEF CallsOK
<1>3. HelpersOK' /\ Serves'
  BY <1>0, <1>1, <1>2 DEF HelpersOK, Serves, CallsOK
<1>4. SessionInv'
  <2>1. ASSUME NEW d \in Callers, phase'[d] \in {"idle", "queued"} PROVE Fresh(d)'
    <3>1. Fresh(d)
      BY <1>0, <1>2, <2>1, Names DEF CallsOK, SessionInv
    <3> QED
      BY <1>1, <3>1, Names DEF Fresh
  <2>2. ASSUME NEW d \in Users, phase'[d] \in Active
        PROVE  d # c /\ phase[d] = phase'[d] /\ process' = process
    <3>1. d # c /\ phase[d] = phase'[d]
      BY <1>0, <1>2, <2>2 DEF CallsOK, Active
    <3>2. ~Holds(c)
      BY <1>0, <2>2, <3>1, Solo
    <3> QED
      BY <3>1, <3>2
  <2>3. ASSUME NEW d \in Callers, phase'[d] = "starting" PROVE process' # Nobody /\ Greets(process)'
    BY <1>0, <1>1, <2>2, <2>3, Names DEF SessionInv, Greets, Active
  <2>4. ASSUME NEW d \in Callers, phase'[d] = "waiting" PROVE process' # Nobody /\ Owes(process, d)'
    BY <1>0, <1>1, <2>2, <2>4, Names DEF SessionInv, Owes, Active
  <2>5. ASSUME NEW d \in Users, phase'[d] = "stopping" PROVE process' = Nobody /\ ending'[d] # Nobody
    BY <1>0, <2>2, <2>5 DEF SessionInv, Active
  <2>6. ASSUME \A d \in Callers : phase'[d] \notin {"starting", "waiting"}, process' # Nobody
        PROVE  Free(process)'
    <3>1. \A d \in Callers : phase[d] \notin {"starting", "waiting"}
      BY <1>0, <1>2, <2>6, Names DEF CallsOK
    <3> QED
      BY <1>0, <1>1, <2>6, <3>1 DEF SessionInv, Free
  <2> QED
    BY <2>1, <2>3, <2>4, <2>5, <2>6 DEF SessionInv
<1>5. RequestInv'
  <2>1. ASSUME NEW d \in Callers, NEW h \in Callers, NEW i \in Nat, Placed(h, i, d)'
        PROVE  Placed(h, i, d) /\ written'[d] = written[d] /\ Accounted(h, d)'
    <3>1. Placed(h, i, d)
      BY <1>1, <2>1 DEF Placed, Alive
    <3>2. Accounted(h, d) /\ d # c
      BY <1>0, <3>1 DEF RequestInv, Accounted
    <3>3. phase[d] = "waiting" => process' = process
      BY <1>0, <3>2, Solo, Names DEF Active
    <3> QED
      BY <1>0, <1>1, <1>2, <3>1, <3>2, <3>3, Names DEF Accounted, CallsOK
  <2>2. \A d \in Callers : phase'[d] \in {"idle", "queued", "starting"} =>
           phase[d] \in {"idle", "queued", "starting"} /\ written'[d] = written[d]
    BY <1>0, <1>1, <1>2, Names DEF CallsOK
  <2> QED
    BY <1>0, <2>1, <2>2, NoneAdded
<1> QED
  BY <1>2, <1>3, <1>4, <1>5, TypeParts DEF IInv

\* A call that waited for the end of its helper returns: the helper has ended, or
\* the call was cancelled.
LEMMA StopReturns ==
  ASSUME IInv, NEW c \in Users, NEW how \in SessionResults, Return(c, how), phase[c] = "stopping",
         process' = process, ending' = [ending EXCEPT ![c] = Nobody], UNCHANGED written,
         \A g \in Callers \ {ending[c]} :
           helper'[g] = helper[g] /\ stdin'[g] = stdin[g] /\ stdout'[g] = stdout[g]
           /\ serving'[g] = serving[g],
         \A g \in Callers : g = ending[c] /\ Alive(g)' =>
           how = "cancelled" /\ helper'[g] = helper[g] /\ stdin'[g] = stdin[g] /\ serving'[g] = serving[g],
         HelpersOK', CountersOK'
  PROVE  IInv'
<1>0. CallsOK /\ HelpersOK /\ LockInv /\ Serves /\ SessionInv /\ RequestInv
  BY TypeParts DEF IInv
<1>1. /\ CallsOK' /\ LockInv' /\ phase' = [phase EXCEPT ![c] = "returned"]
      /\ outcome' = [outcome EXCEPT ![c] = how]
  BY <1>0, Returns DEF CallsOK, Active
<1>2. process = Nobody /\ ending[c] \in Callers
  BY <1>0 DEF SessionInv, CallsOK
<1>a. \A d \in Users \ {c} : phase[d] \notin Active
  BY <1>0, Solo DEF LockInv, Active
<1>b. \A g \in Callers : Alive(g)' => helper'[g] = helper[g] /\ stdin'[g] = stdin[g]
                                      /\ serving'[g] = serving[g]
  OBVIOUS
<1>3. Serves'
  BY <1>0, <1>1, <1>b DEF Serves, CallsOK, Alive
<1>4. SessionInv'
  <2>1. ASSUME NEW d \in Callers, phase'[d] \in {"idle", "queued"} PROVE Fresh(d)'
    <3>1. Fresh(d) /\ d # ending[c]
      BY <1>0, <1>1, <2>1, Names DEF CallsOK, SessionInv, Fresh
    <3> QED
      BY <1>0, <3>1, Names DEF Fresh, CallsOK
  <2>2. \A d \in Users : phase'[d] \notin Active
    BY <1>0, <1>1, <1>a DEF CallsOK, Active
  <2> QED
    BY <1>2, <2>1, <2>2, Names DEF SessionInv, Active
<1>5. RequestInv'
  <2>1. ASSUME NEW d \in Callers, NEW h \in Callers, NEW i \in Nat, Placed(h, i, d)'
        PROVE  Placed(h, i, d) /\ written'[d] = written[d] /\ Accounted(h, d)'
    <3>1. Placed(h, i, d) /\ Alive(h)'
      BY <1>b, <2>1 DEF Placed, Alive
    <3>2. Accounted(h, d)
      BY <1>0, <3>1 DEF RequestInv
    <3>3. CASE d = c
      BY <1>0, <1>1, <3>1, <3>2, <3>3 DEF Accounted, CallsOK
    <3>4. CASE d # c
      BY <1>0, <1>1, <1>a, <3>1, <3>2, <3>4, Names DEF Accounted, CallsOK, Active
    <3> QED
      BY <3>3, <3>4
  <2>2. \A d \in Callers : phase'[d] \in {"idle", "queued", "starting"} =>
           phase[d] \in {"idle", "queued", "starting"} /\ written'[d] = written[d]
    BY <1>0, <1>1, Names DEF CallsOK
  <2> QED
    BY <1>0, <2>1, <2>2, NoneAdded
<1> QED
  BY <1>1, <1>3, <1>4, <1>5, TypeParts DEF IInv

\* A request goes down the pipe of a helper that owes nobody a line.
LEMMA Asks ==
  ASSUME IInv, NEW c \in Callers, Holds(c), phase[c] \in {"queued", "starting"},
         process # Nobody, helper[process] \in {"ready", "exited"},
         helper[process] = "ready" => stdin[process] = <<>>,
         phase' = [phase EXCEPT ![c] = "waiting"],
         stdin' = [stdin EXCEPT ![process] = Append(@, c)],
         stdout' \in [Callers -> Seq(Line)], stdout'[process] = <<>>,
         \A g \in Callers \ {process} : stdout'[g] = stdout[g],
         UNCHANGED <<queue, outcome, process, ending, helper, serving, wire, written>>, CountersOK'
  PROVE  IInv'
<1>0. CallsOK /\ HelpersOK /\ LockInv /\ Serves /\ SessionInv /\ RequestInv
  BY TypeParts DEF IInv
<1>1. process \in Callers /\ c \in Users /\ c # Stopper
  BY <1>0, Names DEF CallsOK
<1>2. \A d \in Users \ {c} : phase[d] \notin Active
  BY <1>0, <1>1, Solo
<1>3. stdin[process] \in Seq(Callers \cup {"QUIT"})
  BY <1>0, <1>1 DEF HelpersOK
<1>4. stdin'[process] = Append(stdin[process], c)
  BY <1>0, <1>1 DEF HelpersOK
<1>5. CallsOK'
  BY <1>0 DEF CallsOK, Phases
<1>6. HelpersOK'
  <2>1. Append(stdin[process], c) \in Seq(Callers \cup {"QUIT"})
    BY <1>3, Appends
  <2> QED
    BY <1>0, <2>1 DEF HelpersOK
<1>7. LockInv' /\ Serves'
  BY <1>0, <1>1 DEF LockInv, Serves, Holds, CallsOK, Active
<1>8. helper[process] = "ready" => stdin'[process] = <<c>>
  BY <1>3, <1>4, Appends
<1>9. SessionInv'
  <2>1. ASSUME NEW d \in Callers, phase'[d] \in {"idle", "queued"} PROVE Fresh(d)'
    <3>1. Fresh(d)
      BY <1>0, <1>1, <2>1, Names DEF CallsOK, SessionInv
    <3> QED
      BY <1>0, <1>1, <3>1 DEF Fresh, HelpersOK
  <2>2. Owes(process, c)'
    BY <1>8 DEF Owes
  <2>3. \A d \in Users : phase'[d] \in Active => d = c /\ phase'[d] = "waiting"
    BY <1>0, <1>1, <1>2 DEF CallsOK, Active
  <2>4. phase'[c] = "waiting"
    BY <1>0, <1>1 DEF CallsOK
  <2> QED
    BY <2>1, <2>2, <2>3, <2>4, Names DEF SessionInv, Active
<1>10. ASSUME NEW d \in Callers, NEW h \in Callers, NEW i \in Nat, Placed(h, i, d)'
       PROVE  \/ d = c /\ h = process /\ i = 1
              \/ d # c /\ Placed(h, i, d)
  <2>1. CASE h = process
    <3>1. helper[process] = "ready" /\ i \in DOMAIN <<c>> /\ <<c>>[i] = d
      BY <1>8, <1>10, <2>1 DEF Placed, Alive
    <3>2. i = 1 /\ d = c
      BY <3>1
    <3> QED
      BY <2>1, <3>2
  <2>2. CASE h # process
    <3>1. Placed(h, i, d)
      BY <1>0, <1>10, <2>2 DEF Placed, Alive, HelpersOK
    <3>2. d # c
      BY <1>0, <3>1 DEF RequestInv, Accounted
    <3> QED
      BY <3>1, <3>2
  <2> QED
    BY <2>1, <2>2
<1>11. RequestInv'
  <2>1. \A d \in Callers : phase'[d] \in {"idle", "queued", "starting"} => written'[d] = 0
    BY <1>0, <1>1, Names DEF RequestInv, CallsOK
  <2>2. written'[c] = 0
    BY <1>0 DEF RequestInv
  <2>3. ASSUME NEW d \in Callers, NEW h \in Callers, NEW i \in Nat, Placed(h, i, d)'
        PROVE  /\ written'[d] = 0 /\ Accounted(h, d)'
               /\ \A g \in Callers, j \in Nat : Placed(g, j, d)' => g = h /\ j = i
    <3>1. CASE d = c
      BY <1>0, <1>1, <1>10, <2>2, <2>3, <3>1 DEF Accounted, CallsOK
    <3>2. CASE d # c
      <4>1. Placed(h, i, d) /\ Accounted(h, d)
        BY <1>0, <1>10, <2>3, <3>2 DEF RequestInv
      <4>2. Accounted(h, d)'
        BY <1>0, <1>1, <1>2, <3>2, <4>1, Names DEF Accounted, CallsOK, Active
      <4>3. written'[d] = 0
        BY <1>0, <4>1 DEF RequestInv
      <4>4. \A g \in Callers, j \in Nat : Placed(g, j, d)' => g = h /\ j = i
        BY <1>0, <1>10, <3>2, <4>1 DEF RequestInv
      <4> QED
        BY <4>2, <4>3, <4>4
    <3> QED
      BY <3>1, <3>2
  <2> QED
    BY <2>1, <2>3 DEF RequestInv
<1> QED
  BY <1>5, <1>6, <1>7, <1>9, <1>11, TypeParts DEF IInv

LEMMA CallKeeps == ASSUME IInv, NEW c \in Users, Call(c) PROVE IInv'
<1>0. CallsOK /\ HelpersOK /\ CountersOK /\ LockInv /\ Serves /\ SessionInv /\ RequestInv
  BY TypeParts DEF IInv
<1>1. /\ phase[c] = "idle" /\ phase' = [phase EXCEPT ![c] = "queued"] /\ queue' = Append(queue, c)
      /\ UNCHANGED <<outcome, process, ending, helper, stdin, stdout, serving, wire, written, failures, cancels>>
  BY DEF Call, NoFault, helpers
<1>2. /\ queue' \in Seq(Users) /\ queue' # <<>> /\ (queue # <<>> => Head(queue') = Head(queue))
      /\ \A i \in DOMAIN queue : i \in DOMAIN queue' /\ queue'[i] = queue[i]
      /\ \E i \in DOMAIN queue' : queue'[i] = c
  <2>1. queue \in Seq(Users)
    BY <1>0 DEF CallsOK
  <2> QED
    BY <1>1, <2>1, Appends
<1>3. CallsOK' /\ HelpersOK' /\ CountersOK' /\ Serves'
  BY <1>0, <1>1, <1>2 DEF CallsOK, HelpersOK, CountersOK, Serves, Phases
<1>4. \A d \in Users : phase'[d] = phase[d] \/ (d = c /\ phase'[d] = "queued")
  BY <1>0, <1>1 DEF CallsOK
<1>5. LockInv'
  <2>1. \A d \in Users : phase'[d] \in Active => Holds(d)'
    BY <1>0, <1>2, <1>4 DEF LockInv, Holds, Active
  <2>2. \A d \in Users : phase'[d] = "queued" => \E i \in DOMAIN queue' : queue'[i] = d
    BY <1>0, <1>2, <1>4 DEF LockInv
  <2> QED
    BY <2>1, <2>2 DEF LockInv
<1>6. SessionInv'
  BY <1>0, <1>1, <1>4, Names DEF SessionInv, Fresh, Greets, Owes, Free
<1>7. RequestInv'
  <2>1. \A h, d \in Callers, i \in Nat : Placed(h, i, d)' = Placed(h, i, d)
    BY <1>1 DEF Placed, Alive
  <2>2. \A h, d \in Callers : Accounted(h, d) => Accounted(h, d)'
    BY <1>1, <1>4, Names DEF Accounted
  <2> QED
    BY <1>0, <1>1, <1>4, <2>1, <2>2, Names DEF RequestInv
<1> QED
  BY <1>3, <1>5, <1>6, <1>7, TypeParts DEF IInv

LEMMA UseAgainKeeps == ASSUME IInv, NEW c \in Users, UseAgain(c) PROVE IInv'
<1>0. CallsOK /\ HelpersOK /\ CountersOK /\ LockInv /\ SessionInv
  BY TypeParts DEF IInv
<1>1. c \in Callers /\ Holds(c) /\ phase[c] = "queued" /\ process # Nobody
  BY DEF UseAgain
<1>2. \A d \in Callers : phase[d] \notin {"starting", "waiting"}
  BY <1>0, <1>1, Solo, Names DEF Active
<1>3. Free(process) /\ process \in Callers
  BY <1>0, <1>1, <1>2 DEF SessionInv, CallsOK
<1>4. /\ phase' = [phase EXCEPT ![c] = "waiting"]
      /\ stdin' = [stdin EXCEPT ![process] = Append(@, c)]
      /\ UNCHANGED <<queue, outcome, process, ending, helper, stdout, serving, wire, written, failures, cancels>>
  BY DEF UseAgain, Send, NoFault
<1> QED
  BY <1>0, <1>1, <1>3, <1>4, Asks DEF Free, CountersOK, HelpersOK

LEMMA StartHelperKeeps == ASSUME IInv, NEW c \in Users, StartHelper(c) PROVE IInv'
<1>0. CallsOK /\ HelpersOK /\ CountersOK /\ LockInv /\ Serves /\ SessionInv /\ RequestInv
  BY TypeParts DEF IInv
<1>1. /\ c \in Callers /\ Holds(c) /\ phase[c] = "queued" /\ process' = c
      /\ helper' = [helper EXCEPT ![c] = "connecting"]
      /\ phase' = [phase EXCEPT ![c] = "starting"]
      /\ UNCHANGED <<queue, outcome, ending, stdin, stdout, serving, wire, written, failures, cancels>>
  BY DEF StartHelper, NoFault
<1>2. \A d \in Users : phase[d] \notin Active
  BY <1>0, <1>1, Solo DEF Active
<1>3. Fresh(c)
  BY <1>0, <1>1 DEF SessionInv
<1>4. CallsOK' /\ HelpersOK' /\ CountersOK'
  BY <1>0, <1>1 DEF CallsOK, HelpersOK, CountersOK, Phases
<1>5. LockInv' /\ Serves'
  BY <1>0, <1>1, Names DEF LockInv, Serves, Holds, CallsOK, HelpersOK, Active
<1>6. SessionInv'
  <2>1. ASSUME NEW d \in Callers, phase'[d] \in {"idle", "queued"} PROVE Fresh(d)'
    <3>1. Fresh(d) /\ d # c
      BY <1>0, <1>1, <2>1, Names DEF CallsOK, SessionInv
    <3> QED
      BY <1>0, <1>1, <3>1 DEF Fresh, HelpersOK
  <2>2. Greets(process)' /\ process' # Nobody
    BY <1>0, <1>1, <1>3, Names DEF Greets, Fresh, HelpersOK
  <2>3. \A d \in Users : phase'[d] \in Active => d = c /\ phase'[d] = "starting"
    BY <1>0, <1>1, <1>2 DEF CallsOK, Active
  <2>4. phase'[c] = "starting"
    BY <1>0, <1>1, Names DEF CallsOK
  <2> QED
    BY <1>1, <2>1, <2>2, <2>3, <2>4, Names DEF SessionInv, Active
<1>7. RequestInv'
  <2>1. ASSUME NEW d \in Callers, NEW h \in Callers, NEW i \in Nat, Placed(h, i, d)'
        PROVE  Placed(h, i, d) /\ written'[d] = written[d] /\ Accounted(h, d)'
    <3>1. h # c
      BY <1>0, <1>1, <1>3, <2>1 DEF Placed, Fresh, HelpersOK
    <3>2. Placed(h, i, d)
      BY <1>0, <1>1, <2>1, <3>1 DEF Placed, Alive, HelpersOK
    <3>3. Accounted(h, d)
      BY <1>0, <3>2 DEF RequestInv
    <3> QED
      BY <1>0, <1>1, <1>2, <3>2, <3>3, Names DEF Accounted, CallsOK, Active
  <2>2. \A d \in Callers : phase'[d] \in {"idle", "queued", "starting"} =>
           phase[d] \in {"idle", "queued", "starting"} /\ written'[d] = written[d]
    BY <1>0, <1>1, Names DEF CallsOK
  <2> QED
    BY <1>0, <2>1, <2>2, NoneAdded
<1> QED
  BY <1>4, <1>5, <1>6, <1>7, TypeParts DEF IInv

LEMMA ReadyKeeps == ASSUME IInv, NEW c \in Users, Ready(c) PROVE IInv'
<1>0. CallsOK /\ HelpersOK /\ CountersOK /\ LockInv /\ Serves /\ SessionInv
  BY TypeParts DEF IInv
<1>1. phase[c] = "starting" /\ stdout[process] # <<>> /\ UNCHANGED <<failures, cancels>>
  BY DEF Ready, NoFault
<1>2. c \in Callers /\ Holds(c) /\ CountersOK'
  BY <1>0, <1>1, Names DEF Serves, LockInv, Active, CountersOK
<1>3. CASE StopHelper(c, "failed")
  BY <1>1, <1>2, <1>3, StopsHelper DEF SessionResults
<1>4. CASE ~StopHelper(c, "failed")
  <2>1. /\ phase' = [phase EXCEPT ![c] = "waiting"]
        /\ stdin' = [stdin EXCEPT ![process] = Append(@, c)]
        /\ stdout' = [stdout EXCEPT ![process] = Tail(@)]
        /\ UNCHANGED <<queue, outcome, process, ending, helper, serving, wire, written>>
    BY <1>4 DEF Ready
  <2>2. process # Nobody /\ Greets(process) /\ process \in Callers
    BY <1>0, <1>1, <1>2 DEF SessionInv, CallsOK
  <2>3. helper[process] \in {"ready", "exited"} /\ stdin[process] = <<>> /\ Len(stdout[process]) = 1
    BY <1>1, <2>2 DEF Greets
  <2>4. stdout[process] \in Seq(Line)
    BY <1>0, <2>2 DEF HelpersOK
  <2>5. Tail(stdout[process]) = <<>> /\ Tail(stdout[process]) \in Seq(Line)
    BY <1>1, <2>3, <2>4, Tails
  <2>6. stdout' \in [Callers -> Seq(Line)] /\ stdout'[process] = <<>>
        /\ \A g \in Callers \ {process} : stdout'[g] = stdout[g]
    BY <1>0, <2>1, <2>2, <2>5 DEF HelpersOK
  <2> QED
    BY <1>1, <1>2, <2>1, <2>2, <2>3, <2>6, Asks
<1> QED
  BY <1>3, <1>4

LEMMA TakeLineKeeps == ASSUME IInv, NEW c \in Users, TakeLine(c) PROVE IInv'
<1>0. CallsOK /\ HelpersOK /\ CountersOK /\ LockInv /\ Serves /\ SessionInv /\ RequestInv
  BY TypeParts DEF IInv
<1> DEFINE line == Head(stdout[process])
<1>1. phase[c] = "waiting" /\ stdout[process] # <<>> /\ UNCHANGED <<failures, cancels>>
  BY DEF TakeLine, NoFault
<1>2. c \in Callers /\ Holds(c) /\ CountersOK'
  BY <1>0, <1>1, Names DEF Serves, LockInv, Active, CountersOK
<1>3. OutcomeOf(line) \in SessionResults
  BY DEF OutcomeOf, SessionResults
<1>4. CASE StopHelper(c, "failed") \/ StopHelper(c, OutcomeOf(line))
  <2> HIDE DEF line
  <2> QED
    BY <1>1, <1>2, <1>3, <1>4, StopsHelper DEF SessionResults
<1>5. CASE ~(StopHelper(c, "failed") \/ StopHelper(c, OutcomeOf(line)))
  <2>1. /\ Return(c, OutcomeOf(line)) /\ stdout' = [stdout EXCEPT ![process] = Tail(@)]
        /\ UNCHANGED <<process, ending, helper, stdin, serving, wire, written>>
    BY <1>5 DEF TakeLine
  <2> HIDE DEF line
  <2>2. CallsOK' /\ LockInv' /\ phase' = [phase EXCEPT ![c] = "returned"]
        /\ outcome' = [outcome EXCEPT ![c] = OutcomeOf(line)]
    <3>1. c \in Users /\ phase[c] \in Active /\ ending' \in [Users -> Callers \cup {Nobody}]
          /\ process' \in Callers \cup {Nobody}
      BY <1>0, <1>1, <2>1 DEF CallsOK, Active
    <3> QED
      BY <1>0, <1>3, <2>1, <3>1, Returns
  <2>3. process # Nobody /\ Owes(process, c) /\ process \in Callers
    BY <1>0, <1>1, <1>2 DEF SessionInv, CallsOK
  <2>4. helper[process] \in {"ready", "exited"} /\ stdin[process] = <<>> /\ Len(stdout[process]) = 1
    BY <1>1, <2>3 DEF Owes
  <2>5. stdout[process] \in Seq(Line)
    BY <1>0, <2>3 DEF HelpersOK
  <2>6. Tail(stdout[process]) = <<>> /\ Tail(stdout[process]) \in Seq(Line)
    BY <1>1, <2>4, <2>5, Tails
  <2>7. HelpersOK' /\ Free(process)' /\ Serves'
    BY <1>0, <2>1, <2>2, <2>3, <2>4, <2>6 DEF HelpersOK, Free, Serves, CallsOK
  <2>8. \A d \in Users : phase'[d] \notin Active
    BY <1>0, <1>2, <2>2, Solo DEF CallsOK, Active
  <2>9. SessionInv'
    <3>1. ASSUME NEW d \in Callers, phase'[d] \in {"idle", "queued"} PROVE Fresh(d)'
      <4>1. Fresh(d)
        BY <1>0, <2>2, <3>1, Names DEF CallsOK, SessionInv
      <4> QED
        BY <1>0, <2>1, <4>1 DEF Fresh, HelpersOK
    <3> QED
      BY <2>7, <2>8, <3>1, Names DEF SessionInv, Active
  <2>10. RequestInv'
    <3>1. ASSUME NEW d \in Callers, NEW h \in Callers, NEW i \in Nat, Placed(h, i, d)'
          PROVE  Placed(h, i, d) /\ written'[d] = written[d] /\ Accounted(h, d)'
      <4>1. Placed(h, i, d)
        BY <2>1, <3>1 DEF Placed, Alive
      <4>2. Accounted(h, d)
        BY <1>0, <4>1 DEF RequestInv
      <4>3. h # process
        BY <2>4, <4>1 DEF Placed
      <4>4. d # c
        BY <1>1, <4>2, <4>3 DEF Accounted
      <4>5. phase[d] = "returned" /\ outcome[d] = "cancelled"
        BY <1>0, <1>2, <4>2, <4>4, Solo, Names DEF Accounted, Active
      <4> QED
        BY <1>0, <2>1, <2>2, <4>1, <4>4, <4>5, Names DEF Accounted, CallsOK
    <3>2. \A d \in Callers : phase'[d] \in {"idle", "queued", "starting"} =>
             phase[d] \in {"idle", "queued", "starting"} /\ written'[d] = written[d]
      BY <1>0, <2>1, <2>2, Names DEF CallsOK
    <3> QED
      BY <1>0, <3>1, <3>2, NoneAdded
  <2> QED
    BY <1>2, <2>2, <2>7, <2>9, <2>10, TypeParts DEF IInv
<1> QED
  BY <1>4, <1>5

LEMMA ExitedOrKilledKeeps == ASSUME IInv, NEW c \in Users, Exited(c) \/ Kill(c) PROVE IInv'
<1>0. CallsOK /\ HelpersOK /\ CountersOK /\ SessionInv
  BY TypeParts DEF IInv
<1>1. phase[c] = "stopping" /\ Return(c, outcome[c]) /\ ending' = [ending EXCEPT ![c] = Nobody]
      /\ UNCHANGED <<process, written, failures, cancels>>
      /\ stdout' = [stdout EXCEPT ![ending[c]] = <<>>]
  BY DEF Exited, Kill, NoFault
<1>2. ending[c] \in Callers /\ outcome[c] \in SessionResults
  BY <1>0, <1>1 DEF SessionInv, CallsOK
<1>a. CountersOK'
  BY <1>0, <1>1 DEF CountersOK
<1>3. CASE ~Alive(ending[c]) /\ UNCHANGED <<helper, stdin, serving, wire>>
  <2> DEFINE h == ending[c]
  <2>1. h \in Callers /\ ~Alive(h) /\ UNCHANGED <<helper, stdin, serving, wire, written>>
        /\ stdout' = [stdout EXCEPT ![h] = <<>>]
    BY <1>1, <1>2, <1>3
  <2> HIDE DEF h
  <2>2. HelpersOK'
    BY <1>0, <2>1, EmptyPipes DEF HelpersOK
  <2>3. \A g \in Callers : g = h => ~Alive(g)'
    BY <2>1 DEF Alive
  <2>4. \A g \in Callers \ {h} : stdout'[g] = stdout[g]
    BY <1>0, <2>1 DEF HelpersOK
  <2> QED
    BY <1>1, <1>2, <1>a, <2>1, <2>2, <2>3, <2>4, StopReturns DEF h
<1>4. CASE Gone(ending[c])
  <2> DEFINE h == ending[c]
  <2>1. /\ helper' = [helper EXCEPT ![h] = "exited"] /\ stdin' = [stdin EXCEPT ![h] = <<>>]
        /\ serving' = [serving EXCEPT ![h] = Nobody] /\ wire' = [wire EXCEPT ![h] = <<>>]
        /\ stdout' = [stdout EXCEPT ![h] = <<>>] /\ written' = written /\ h \in Callers
    BY <1>1, <1>2, <1>4 DEF Gone
  <2> HIDE DEF h
  <2>2. HelpersOK'
    BY <1>0, <2>1, EmptyPipes DEF HelpersOK
  <2>3. helper'[h] = "exited" /\ ~(helper'[h] \notin {"absent", "exited"})
    BY <1>0, <2>1 DEF HelpersOK
  <2>4. \A g \in Callers \ {h} :
          helper'[g] = helper[g] /\ stdin'[g] = stdin[g] /\ stdout'[g] = stdout[g] /\ serving'[g] = serving[g]
    BY <1>0, <2>1 DEF HelpersOK
  <2>5. \A g \in Callers : g = h => ~Alive(g)'
    BY <2>3 DEF Alive
  <2> QED
    BY <1>1, <1>2, <1>a, <2>1, <2>2, <2>4, <2>5, StopReturns DEF h
<1> QED
  BY <1>3, <1>4 DEF Exited, Kill

LEMMA EndsKeep ==
  ASSUME IInv, NEW c \in Users, EndOfFile(c) \/ TimesOut(c) \/ (c = Stopper /\ Stop)
  PROVE  IInv'
<1>0. LockInv /\ CountersOK
  BY TypeParts DEF IInv
<1>1. CountersOK'
  BY <1>0 DEF EndOfFile, TimesOut, Stop, NoFault, CountersOK
<1>2. CASE EndOfFile(c) \/ TimesOut(c)
  <2>1. phase[c] \in {"starting", "waiting"} /\ StopHelper(c, "failed")
    BY <1>2 DEF EndOfFile, TimesOut
  <2> QED
    BY <1>0, <1>1, <2>1, StopsHelper DEF LockInv, Active, SessionResults
<1>3. CASE c = Stopper /\ Stop
  BY <1>1, <1>3, StopsHelper DEF Stop, SessionResults
<1> QED
  BY <1>2, <1>3

LEMMA StartRefusedKeeps == ASSUME IInv, NEW c \in Callers, StartRefused(c) PROVE IInv'
<1>1. CountersOK'
  BY TypeParts, FailuresAssumption DEF IInv, StartRefused, Fault, CountersOK
<1>2. /\ c \in Users /\ phase[c] = "queued" /\ Holds(c) /\ process' = Nobody
      /\ Return(c, "failed") /\ UNCHANGED <<ending, helpers>>
  BY Names DEF StartRefused
<1> QED
  BY <1>1, <1>2, LeavesLine DEF SessionResults

LEMMA CancelKeeps == ASSUME IInv, NEW c \in Callers, Cancel(c) PROVE IInv'
<1>0. CallsOK /\ HelpersOK /\ CountersOK /\ LockInv /\ c \in Users
  BY TypeParts, Names DEF IInv
<1>1. CountersOK'
  BY <1>0, FailuresAssumption DEF Cancel, CountersOK
<1>2. CASE phase[c] = "queued"
  BY <1>1, <1>0, <1>2, LeavesLine DEF Cancel, SessionResults
<1>3. CASE phase[c] \in {"starting", "waiting"}
  <2>1. StopHelper(c, "cancelled") /\ Holds(c)
    BY <1>0, <1>3 DEF Cancel, LockInv, Active
  <2> QED
    BY <1>0, <1>1, <1>3, <2>1, StopsHelper DEF SessionResults
<1>4. CASE phase[c] = "stopping"
  <2>1. /\ Return(c, "cancelled") /\ ending' = [ending EXCEPT ![c] = Nobody]
        /\ UNCHANGED <<process, helper, stdin, stdout, serving, wire, written>>
    BY <1>4 DEF Cancel, helpers
  <2>2. HelpersOK'
    BY <1>0, <2>1 DEF HelpersOK
  <2> QED
    BY <1>0, <1>1, <1>4, <2>1, <2>2, StopReturns DEF SessionResults
<1> QED
  BY <1>2, <1>3, <1>4 DEF Cancel

-----------------------------------------------------------------------------
(***************************************************************************)
(* The steps of a helper                                                   *)
(***************************************************************************)

Others(h) ==
  \A g \in Callers \ {h} : helper'[g] = helper[g] /\ stdin'[g] = stdin[g]
                           /\ stdout'[g] = stdout[g] /\ serving'[g] = serving[g]

\* A helper that keeps to its part leaves the session in order.
LEMMA HelperKeeps ==
  ASSUME CallsOK, LockInv, SessionInv, NEW h \in Callers, UNCHANGED calls, helper[h] # "absent",
         Others(h), Greets(h) => Greets(h)', \A c \in Callers : Owes(h, c) => Owes(h, c)',
         Free(h) => Free(h)'
  PROVE  CallsOK' /\ LockInv' /\ SessionInv'
<1>1. UNCHANGED <<queue, phase, outcome, process, ending>>
  BY DEF calls
<1>2. CallsOK' /\ LockInv'
  BY <1>1 DEF CallsOK, LockInv, Holds
<1>3. process # Nobody => process \in Callers
  BY DEF CallsOK
<1>4. ASSUME NEW c \in Callers, phase'[c] \in {"idle", "queued"} PROVE Fresh(c)'
  <2>1. Fresh(c)
    BY <1>1, <1>4 DEF SessionInv
  <2> QED
    BY <1>1, <2>1 DEF Fresh, Others
<1>5. /\ process # Nobody /\ Greets(process) => Greets(process)'
      /\ \A c \in Callers : process # Nobody /\ Owes(process, c) => Owes(process, c)'
      /\ process # Nobody /\ Free(process) => Free(process)'
  <2>1. CASE process = h
    BY <1>1, <2>1 DEF Greets, Owes, Free
  <2>2. CASE process # h
    BY <1>1, <1>3, <2>2 DEF Greets, Owes, Free, Others
  <2> QED
    BY <2>1, <2>2
<1> QED
  BY <1>1, <1>2, <1>4, <1>5 DEF SessionInv

LEMMA CountersKept == ASSUME CountersOK, Fault \/ NoFault PROVE CountersOK'
BY FailuresAssumption DEF CountersOK, Fault, NoFault

LEMMA ConnectKeeps == ASSUME IInv, NEW h \in Callers, Connect(h) PROVE IInv'
<1>0. CallsOK /\ HelpersOK /\ CountersOK /\ LockInv /\ Serves /\ SessionInv /\ RequestInv
  BY TypeParts DEF IInv
<1>1. helper[h] = "connecting" /\ UNCHANGED calls /\ written' = written /\ CountersOK'
  BY <1>0, CountersKept DEF Connect
<1>2. stdout[h] \in Seq(Line) /\ stdin[h] \in Seq(Callers \cup {"QUIT"})
  BY <1>0 DEF HelpersOK
<1>3. PICK ok \in BOOLEAN :
        /\ stdout' = [stdout EXCEPT ![h] = Append(@, [event |-> "ready", ok |-> ok])]
        /\ \/ helper' = [helper EXCEPT ![h] = "ready"] /\ UNCHANGED <<stdin, serving, wire>>
           \/ Gone(h)
  BY DEF Connect, PrintLine
<1> DEFINE line == [event |-> "ready", ok |-> ok]
<1>4. line \in Line /\ line.event = "ready"
  BY Lines
<1> HIDE DEF line
<1>5. stdout'[h] = Append(stdout[h], line) /\ stdout'[h] \in Seq(Line)
      /\ (stdout[h] = <<>> => stdout'[h] = <<line>>)
  <2>1. stdout'[h] = Append(stdout[h], line)
    BY <1>0, <1>3 DEF HelpersOK, line
  <2> QED
    BY <1>2, <1>4, <2>1, Appends
<1>6. HelpersOK'
  <2>1. stdout' \in [Callers -> Seq(Line)]
    BY <1>0, <1>3, <1>5 DEF HelpersOK
  <2>2. CASE Gone(h)
    BY <1>0, <1>1, <2>1, <2>2, EmptyPipes DEF HelpersOK, Gone
  <2>3. CASE ~Gone(h)
    BY <1>0, <1>1, <1>3, <2>1, <2>3 DEF HelpersOK
  <2> QED
    BY <2>2, <2>3
<1>7. Others(h) /\ helper'[h] \in {"ready", "exited"} /\ stdin'[h] \in {stdin[h], <<>>}
      /\ (helper'[h] = "ready" => stdin'[h] = stdin[h])
  BY <1>0, <1>3 DEF Others, Gone, HelpersOK
<1>8. Serves'
  BY <1>0, <1>1, <1>7 DEF Serves, Others, calls
<1>9. CallsOK' /\ LockInv' /\ SessionInv'
  <2>1. Greets(h) => Greets(h)'
    BY <1>1, <1>4, <1>5, <1>7 DEF Greets
  <2>2. (\A c \in Callers : ~Owes(h, c)) /\ ~Free(h)
    BY <1>1 DEF Owes, Free
  <2> QED
    BY <1>0, <1>1, <1>7, <2>1, <2>2, HelperKeeps
<1>10. RequestInv'
  <2>1. \A d, g \in Callers, i \in Nat : Placed(g, i, d)' => Placed(g, i, d)
    BY <1>1, <1>7 DEF Placed, Alive, Others
  <2> QED
    BY <1>0, <1>1, <2>1, NoneAdded DEF RequestInv, Accounted, calls
<1> QED
  BY <1>1, <1>6, <1>8, <1>9, <1>10, TypeParts DEF IInv

\* The one line of an exchange is printed; the helper goes on, or exits.
LEMMA AnswerKeeps ==
  ASSUME IInv, NEW h \in Callers, helper[h] \in {"writing", "reading"}, UNCHANGED <<calls, written>>,
         CountersOK', NEW r \in BOOLEAN, NEW s \in BOOLEAN, NEW a \in BOOLEAN, PrintAnswer(h, r, s, a),
         \/ /\ helper' = [helper EXCEPT ![h] = "ready"] /\ serving' = [serving EXCEPT ![h] = Nobody]
            /\ stdin' = stdin /\ wire' \in [Callers -> Seq(Answer)]
         \/ Gone(h)
  PROVE  IInv'
<1>0. CallsOK /\ HelpersOK /\ CountersOK /\ LockInv /\ Serves /\ SessionInv /\ RequestInv
  BY TypeParts DEF IInv
<1> DEFINE line == [event |-> "answer", of |-> serving[h], received |-> r, sent |-> s, alive |-> a]
<1>1. line \in Line /\ line.event = "answer" /\ line.of = serving[h]
  BY <1>0, Lines DEF Serves
<1>2. stdout' = [stdout EXCEPT ![h] = Append(@, line)]
  BY DEF PrintAnswer, PrintLine
<1> HIDE DEF line
<1>3. stdout'[h] \in Seq(Line) /\ (stdout[h] = <<>> => stdout'[h] = <<line>>)
  <2>1. stdout'[h] = Append(stdout[h], line) /\ stdout[h] \in Seq(Line)
    BY <1>0, <1>2 DEF HelpersOK
  <2> QED
    BY <1>1, <2>1, Appends
<1>4. HelpersOK'
  <2>1. stdout' \in [Callers -> Seq(Line)]
    BY <1>0, <1>2, <1>3 DEF HelpersOK
  <2>2. CASE Gone(h)
    BY <1>0, <2>1, <2>2, EmptyPipes DEF HelpersOK, Gone
  <2>3. CASE ~Gone(h)
    BY <1>0, <2>1, <2>3 DEF HelpersOK
  <2> QED
    BY <2>2, <2>3
<1>5. Others(h) /\ helper'[h] \in {"ready", "exited"} /\ stdin'[h] \in {stdin[h], <<>>}
  BY <1>0, <1>2 DEF Others, Gone, HelpersOK
<1>6. Serves'
  BY <1>0, <1>5 DEF Serves, Others, calls
<1>7. CallsOK' /\ LockInv' /\ SessionInv'
  <2>1. ASSUME NEW c \in Callers, Owes(h, c) PROVE Owes(h, c)'
    <3>1. serving[h] = c /\ stdin[h] = <<>> /\ stdout[h] = <<>>
      BY <2>1 DEF Owes
    <3>2. stdout'[h] = <<line>>
      BY <1>3, <3>1
    <3>3. Len(stdout'[h]) = 1 /\ stdout'[h][1] = line
      BY <3>2
    <3>4. stdin'[h] = <<>>
      BY <1>5, <3>1
    <3> QED
      BY <1>1, <1>5, <3>1, <3>3, <3>4 DEF Owes
  <2>2. ~Greets(h) /\ ~Free(h)
    BY DEF Greets, Free
  <2> QED
    BY <1>0, <1>5, <2>1, <2>2, HelperKeeps
<1>8. RequestInv'
  <2>1. \A d, g \in Callers, i \in Nat : Placed(g, i, d)' => Placed(g, i, d)
    BY <1>5 DEF Placed, Alive, Others
  <2> QED
    BY <1>0, <2>1, NoneAdded DEF RequestInv, Accounted, calls
<1> QED
  BY <1>4, <1>6, <1>7, <1>8, TypeParts DEF IInv

LEMMA NextCommandKeeps == ASSUME IInv, NEW h \in Callers, NextCommand(h) PROVE IInv'
<1>0. CallsOK /\ HelpersOK /\ CountersOK /\ LockInv /\ Serves /\ SessionInv /\ RequestInv
  BY TypeParts DEF IInv
<1>1. helper[h] = "ready" /\ stdin[h] # <<>> /\ UNCHANGED <<calls, stdout, written>> /\ CountersOK'
  BY <1>0, CountersKept DEF NextCommand
<1>2. stdin[h] \in Seq(Callers \cup {"QUIT"})
  BY <1>0 DEF HelpersOK
<1> DEFINE first == Head(stdin[h])
<1> DEFINE rest == Tail(stdin[h])
<1>3. /\ first \in Callers \cup {"QUIT"} /\ rest \in Seq(Callers \cup {"QUIT"})
      /\ 1 \in DOMAIN stdin[h] /\ first = stdin[h][1]
      /\ \A i \in DOMAIN rest : i + 1 \in DOMAIN stdin[h] /\ rest[i] = stdin[h][i + 1]
      /\ \A c : stdin[h] = <<c>> => first = c /\ rest = <<>>
  <2>1. ASSUME NEW c, stdin[h] = <<c>> PROVE first = c /\ rest = <<>>
    BY <2>1
  <2>2. /\ first \in Callers \cup {"QUIT"} /\ rest \in Seq(Callers \cup {"QUIT"})
        /\ 1 \in DOMAIN stdin[h] /\ first = stdin[h][1]
        /\ \A i \in DOMAIN rest : i + 1 \in DOMAIN stdin[h] /\ rest[i] = stdin[h][i + 1]
    BY <1>1, <1>2, Tails
  <2> QED
    BY <2>1, <2>2
<1>4. \/ first = "QUIT" /\ Gone(h)
      \/ /\ first # "QUIT" /\ helper' = [helper EXCEPT ![h] = "writing"]
         /\ serving' = [serving EXCEPT ![h] = first] /\ stdin' = [stdin EXCEPT ![h] = rest]
         /\ wire' = wire
  BY DEF NextCommand
<1> HIDE DEF first, rest
<1>5. HelpersOK'
  <2>1. CASE Gone(h)
    BY <1>0, <1>1, <2>1, EmptyPipes DEF HelpersOK, Gone
  <2>2. CASE ~Gone(h)
    <3>1. first \in Callers
      BY <1>3, <1>4, <2>2
    <3>2. stdin' \in [Callers -> Seq(Callers \cup {"QUIT"})]
      BY <1>0, <1>3, <1>4, <2>2 DEF HelpersOK
    <3> QED
      BY <1>0, <1>1, <1>4, <2>2, <3>1, <3>2 DEF HelpersOK
  <2> QED
    BY <2>1, <2>2
<1>6. Others(h)
  BY <1>0, <1>1, <1>4 DEF Others, Gone, HelpersOK
<1>7. \/ helper'[h] = "exited"
      \/ helper'[h] = "writing" /\ serving'[h] = first /\ stdin'[h] = rest /\ first \in Callers
  BY <1>0, <1>3, <1>4 DEF Gone, HelpersOK
<1>8. Serves'
  BY <1>0, <1>1, <1>6, <1>7 DEF Serves, Others, calls
<1>9. CallsOK' /\ LockInv' /\ SessionInv'
  <2>1. ASSUME NEW c \in Callers, Owes(h, c) PROVE Owes(h, c)'
    <3>1. stdin[h] = <<c>> /\ stdout[h] = <<>>
      BY <1>1, <2>1 DEF Owes
    <3> QED
      BY <1>1, <1>3, <1>7, <3>1 DEF Owes
  <2>2. ~Greets(h) /\ ~Free(h)
    BY <1>1 DEF Greets, Free
  <2> QED
    BY <1>0, <1>1, <1>6, <2>1, <2>2, HelperKeeps
<1>10. RequestInv'
  <2>1. ASSUME NEW d \in Callers, NEW g \in Callers, NEW i \in Nat, Placed(g, i, d)'
        PROVE  Placed(g, IF g = h THEN i + 1 ELSE i, d)
    <3>1. CASE g = h
      <4>1. helper'[h] = "writing" /\ serving'[h] = first /\ stdin'[h] = rest
        BY <1>7, <2>1, <3>1 DEF Placed, Alive
      <4>2. i + 1 \in DOMAIN stdin[h] /\ stdin[h][i + 1] = d
        BY <1>3, <2>1, <3>1, <4>1 DEF Placed
      <4> QED
        BY <1>1, <3>1, <4>2 DEF Placed, Alive
    <3>2. CASE g # h
      BY <1>6, <2>1, <3>2 DEF Placed, Alive, Others
    <3> QED
      BY <3>1, <3>2
  <2>2. ASSUME NEW d \in Callers, NEW g \in Callers, NEW i \in Nat, Placed(g, i, d)'
        PROVE  /\ written'[d] = 0 /\ Accounted(g, d)'
               /\ \A f \in Callers, j \in Nat : Placed(f, j, d)' => f = g /\ j = i
    <3> DEFINE before(f, j) == IF f = h THEN j + 1 ELSE j
    <3>1. before(g, i) \in Nat /\ Placed(g, before(g, i), d)
      BY <2>1, <2>2
    <3>2. written[d] = 0 /\ Accounted(g, d)
          /\ \A f \in Callers, j \in Nat : Placed(f, j, d) => f = g /\ j = before(g, i)
      BY <1>0, <3>1 DEF RequestInv
    <3>3. ASSUME NEW f \in Callers, NEW j \in Nat, Placed(f, j, d)' PROVE f = g /\ j = i
      <4>1. before(f, j) \in Nat /\ Placed(f, before(f, j), d)
        BY <2>1, <3>3
      <4>2. f = g /\ before(f, j) = before(g, i)
        BY <3>2, <4>1
      <4> QED
        BY <4>2
    <3> QED
      BY <1>1, <3>2, <3>3 DEF Accounted, calls
  <2> QED
    BY <1>0, <1>1, <2>2 DEF RequestInv, calls
<1> QED
  BY <1>1, <1>5, <1>8, <1>9, <1>10, TypeParts DEF IInv

\* What a write finds: a request that is nowhere else and was not written before.
LEMMA Writing ==
  ASSUME IInv, NEW h \in Callers, helper[h] = "writing"
  PROVE  /\ serving[h] \in Callers /\ Placed(h, 0, serving[h]) /\ written[serving[h]] = 0
         /\ Accounted(h, serving[h])
         /\ \A g \in Callers, j \in Nat : Placed(g, j, serving[h]) => g = h /\ j = 0
<1>1. serving[h] \in Callers
  BY DEF IInv, Serves
<1>2. Placed(h, 0, serving[h])
  BY DEF Placed, Alive
<1> QED
  BY <1>1, <1>2 DEF IInv, RequestInv

LEMMA RdtWriteKeeps == ASSUME IInv, NEW h \in Callers, RdtWrite(h) PROVE IInv'
<1>0. CallsOK /\ HelpersOK /\ CountersOK /\ LockInv /\ Serves /\ SessionInv /\ RequestInv
  BY TypeParts DEF IInv
<1>1. helper[h] = "writing" /\ UNCHANGED calls /\ CountersOK'
  BY <1>0, CountersKept DEF RdtWrite
<1>2. CASE ReportDead(h, FALSE) /\ UNCHANGED written
  BY <1>1, <1>2, AnswerKeeps DEF ReportDead
<1>3. CASE ~(ReportDead(h, FALSE) /\ UNCHANGED written)
  <2> DEFINE c == serving[h]
  <2>1. /\ written' = [written EXCEPT ![c] = @ + 1]
        /\ helper' = [helper EXCEPT ![h] = "reading"]
        /\ \/ \E b \in BOOLEAN : wire' = [wire EXCEPT ![h] = Append(@, [of |-> c, refused |-> b])]
           \/ wire' = wire
        /\ UNCHANGED <<stdin, stdout, serving>>
    BY <1>3 DEF RdtWrite
  <2>2. c \in Callers /\ written[c] = 0 /\ Accounted(h, c)
        /\ \A g \in Callers, j \in Nat : Placed(g, j, c) => g = h /\ j = 0
    BY <1>1, Writing
  <2>3. wire' \in [Callers -> Seq(Answer)]
    <3>1. \A b \in BOOLEAN : Append(wire[h], [of |-> c, refused |-> b]) \in Seq(Answer)
      <4>1. wire[h] \in Seq(Answer) /\ \A b \in BOOLEAN : [of |-> c, refused |-> b] \in Answer
        BY <1>0, <2>2, Lines DEF HelpersOK
      <4> HIDE DEF c
      <4> QED
        BY <4>1, Appends
    <3> HIDE DEF c
    <3> QED
      BY <1>0, <2>1, <3>1 DEF HelpersOK
  <2> HIDE DEF c
  <2>4. HelpersOK'
    <3>1. written' \in [Callers -> 0 .. 1]
      BY <1>0, <2>1, <2>2 DEF HelpersOK
    <3> QED
      BY <1>0, <2>1, <2>3, <3>1 DEF HelpersOK
  <2>5. Others(h) /\ helper'[h] = "reading" /\ stdin'[h] = stdin[h]
    BY <1>0, <2>1 DEF Others, HelpersOK
  <2>6. Serves'
    BY <1>0, <1>1, <2>1, <2>5 DEF Serves, Others, calls
  <2>7. CallsOK' /\ LockInv' /\ SessionInv'
    <3>1. \A d \in Callers : Owes(h, d) => Owes(h, d)'
      BY <1>1, <2>1, <2>5 DEF Owes
    <3>2. ~Greets(h) /\ ~Free(h)
      BY <1>1 DEF Greets, Free
    <3> QED
      BY <1>0, <1>1, <2>5, <3>1, <3>2, HelperKeeps
  <2>8. RequestInv'
    <3>1. ASSUME NEW d \in Callers, NEW g \in Callers, NEW i \in Nat, Placed(g, i, d)'
          PROVE  Placed(g, i, d) /\ written'[d] = written[d] /\ Accounted(g, d)'
      <4>1. Placed(g, i, d) /\ (g = h => i \in DOMAIN stdin[h])
        BY <1>1, <2>1, <2>5, <3>1 DEF Placed, Alive, Others
      <4>2. d # c
        <5>1. ASSUME d = c PROVE FALSE
          <6>1. g = h /\ i = 0
            BY <2>2, <4>1, <5>1
          <6>2. stdin[h] \in Seq(Callers \cup {"QUIT"}) /\ 0 \in DOMAIN stdin[h]
            BY <1>0, <4>1, <6>1 DEF HelpersOK
          <6> QED
            BY <6>2
        <5> QED
          BY <5>1
      <4> QED
        BY <1>0, <1>1, <2>1, <4>1, <4>2 DEF RequestInv, Accounted, calls, HelpersOK
    <3>2. ASSUME NEW d \in Callers, phase'[d] \in {"idle", "queued", "starting"}
          PROVE  phase[d] \in {"idle", "queued", "starting"} /\ written'[d] = written[d]
      <4>1. d # c
        BY <1>1, <2>2, <3>2 DEF Accounted, calls
      <4> QED
        BY <1>0, <1>1, <2>1, <3>2, <4>1 DEF calls, HelpersOK
    <3> QED
      BY <1>0, <3>1, <3>2, NoneAdded
  <2> QED
    BY <1>1, <2>4, <2>6, <2>7, <2>8, TypeParts DEF IInv
<1> QED
  BY <1>2, <1>3

LEMMA ReadsKeep ==
  ASSUME IInv, NEW h \in Callers, RdtRead(h) \/ ReadsInVain(h) \/ RdtReadFails(h)
  PROVE  IInv'
<1>0. CallsOK /\ HelpersOK /\ CountersOK /\ LockInv /\ Serves /\ SessionInv /\ RequestInv
  BY TypeParts DEF IInv
<1>1. helper[h] = "reading" /\ UNCHANGED <<calls, written>> /\ CountersOK'
  BY <1>0, CountersKept DEF RdtRead, ReadsInVain, RdtReadFails
<1>2. CASE RdtRead(h)
  <2>1. wire[h] \in Seq(Answer) /\ wire[h] # <<>> /\ wire' = [wire EXCEPT ![h] = Tail(@)]
    BY <1>0, <1>2 DEF RdtRead, HelpersOK
  <2>2. wire' \in [Callers -> Seq(Answer)]
    <3>1. Tail(wire[h]) \in Seq(Answer)
      BY <2>1, Tails
    <3> QED
      BY <1>0, <2>1, <3>1 DEF HelpersOK
  <2>3. CASE Report(h, TRUE)
    <3>1. stdin' = stdin
      BY <1>2 DEF RdtRead
    <3> QED
      BY <1>1, <2>2, <2>3, <3>1, AnswerKeeps DEF Report
  <2>4. CASE ~Report(h, TRUE)
    <3>1. UNCHANGED <<helper, stdin, stdout, serving, written>>
      BY <1>2, <2>4 DEF RdtRead
    <3>2. HelpersOK' /\ Serves'
      BY <1>0, <1>1, <2>2, <3>1 DEF HelpersOK, Serves, calls
    <3>3. CallsOK' /\ LockInv' /\ SessionInv'
      BY <1>0, <1>1, <3>1, HelperKeeps DEF Others, Greets, Owes, Free
    <3>4. RequestInv'
      <4>1. \A d, g \in Callers, i \in Nat : Placed(g, i, d)' => Placed(g, i, d)
        BY <3>1 DEF Placed, Alive
      <4> QED
        BY <1>0, <1>1, <4>1, NoneAdded DEF RequestInv, Accounted, calls
    <3> QED
      BY <1>1, <3>2, <3>3, <3>4, TypeParts DEF IInv
  <2> QED
    BY <2>3, <2>4
<1>3. CASE ReadsInVain(h)
  <2>1. Report(h, FALSE) /\ stdin' = stdin /\ wire' \in [Callers -> Seq(Answer)]
    BY <1>0, <1>3 DEF ReadsInVain, HelpersOK
  <2> QED
    BY <1>1, <2>1, AnswerKeeps DEF Report
<1>4. CASE RdtReadFails(h)
  BY <1>1, <1>4, AnswerKeeps DEF RdtReadFails, ReportDead
<1> QED
  BY <1>2, <1>3, <1>4

LEMMA CrashKeeps == ASSUME IInv, NEW h \in Callers, Crash(h) PROVE IInv'
<1>0. CallsOK /\ HelpersOK /\ CountersOK /\ LockInv /\ Serves /\ SessionInv /\ RequestInv
  BY TypeParts DEF IInv
<1>1. Alive(h) /\ Gone(h) /\ UNCHANGED <<calls, stdout, written>> /\ CountersOK'
  BY <1>0, CountersKept DEF Crash
<1>2. HelpersOK' /\ Others(h) /\ helper'[h] = "exited" /\ stdin'[h] = <<>>
  BY <1>0, <1>1, EmptyPipes DEF HelpersOK, Gone, Others
<1>3. Serves'
  BY <1>0, <1>1, <1>2 DEF Serves, Others, calls
<1>4. CallsOK' /\ LockInv' /\ SessionInv'
  BY <1>0, <1>1, <1>2, HelperKeeps DEF Alive, Greets, Owes, Free
<1>5. RequestInv'
  <2>1. \A d, g \in Callers, i \in Nat : Placed(g, i, d)' => Placed(g, i, d)
    BY <1>2 DEF Placed, Alive, Others
  <2> QED
    BY <1>0, <1>1, <2>1, NoneAdded DEF RequestInv, Accounted, calls
<1> QED
  BY <1>1, <1>2, <1>3, <1>4, <1>5, TypeParts DEF IInv

-----------------------------------------------------------------------------
(***************************************************************************)
(* The theorems                                                            *)
(***************************************************************************)

LEMMA InitInv == ASSUME SessionInit PROVE IInv
<1>1. SessionTypeOK
  BY EmptyPipes, Empty, FailuresAssumption DEF SessionInit, SessionTypeOK
<1>2. LockInv /\ Serves
  BY Names DEF SessionInit, LockInv, Serves, Active
<1>3. SessionInv
  BY Names DEF SessionInit, SessionInv, Fresh
<1>4. RequestInv
  BY Names DEF SessionInit, RequestInv, Placed, Alive
<1> QED
  BY <1>1, <1>2, <1>3, <1>4 DEF IInv

LEMMA StutterKeeps == ASSUME IInv, UNCHANGED sessionVars PROVE IInv'
<1>1. UNCHANGED <<queue, phase, outcome, process, ending, helper, stdin, stdout, serving, wire,
                  written, failures, cancels>>
  BY DEF sessionVars, calls, helpers
<1>2. SessionTypeOK' /\ LockInv' /\ Serves'
  BY <1>1 DEF IInv, SessionTypeOK, LockInv, Serves, Holds
<1>3. SessionInv' /\ RequestInv'
  BY <1>1 DEF IInv, SessionInv, Fresh, Greets, Owes, Free, RequestInv, Placed, Alive, Accounted
<1> QED
  BY <1>2, <1>3 DEF IInv

LEMMA NextKeeps == ASSUME IInv, [SessionNext]_sessionVars PROVE IInv'
<1>1. ASSUME NEW c \in Users, Call(c) \/ Session(c) PROVE IInv'
  BY <1>1, CallKeeps, UseAgainKeeps, StartHelperKeeps, ReadyKeeps, TakeLineKeeps, EndsKeep,
     ExitedOrKilledKeeps DEF Session
<1>2. ASSUME NEW c \in Callers, StartRefused(c) \/ Cancel(c) PROVE IInv'
  BY <1>2, StartRefusedKeeps, CancelKeeps
<1>3. ASSUME Stop PROVE IInv'
  BY <1>3, EndsKeep, Names
<1>4. ASSUME NEW h \in Callers, Process(h) PROVE IInv'
  BY <1>4, ConnectKeeps, NextCommandKeeps, RdtWriteKeeps, ReadsKeep, CrashKeeps DEF Process
<1> QED
  BY <1>1, <1>2, <1>3, <1>4, StutterKeeps DEF SessionNext, Rests

LEMMA Invariance == SessionSpec => []IInv
<1>1. SessionInit => IInv
  BY InitInv
<1>2. IInv /\ [SessionNext]_sessionVars => IInv'
  BY NextKeeps
<1> QED
  BY <1>1, <1>2, PTL DEF SessionSpec

\* Every phase, pipe, line and answer keeps its range; with it, no request is
\* written to the gate twice (ouranos_native_session.py).
THEOREM SessionTypeCorrect == SessionSpec => []SessionTypeOK
BY Invariance, PTL DEF IInv

\* Whatever times out, crashes or is cancelled in front of its line, the line a call
\* takes answers its own request (ouranos_native_session.py, _async_exchange).
THEOREM LinesAreOwn == SessionSpec => []LineIsOwn
<1>1. IInv => LineIsOwn
  <2>1. ASSUME IInv, NEW c \in Callers, phase[c] = "waiting",
               NEW i \in 1 .. Len(stdout[process]), i = 1
        PROVE  stdout[process][i].event = "answer" /\ stdout[process][i].of = c
    <3>1. Owes(process, c) /\ process \in Callers
      BY <2>1, TypeParts DEF IInv, SessionInv, CallsOK
    <3>2. stdout[process] # <<>>
      BY <2>1
    <3> QED
      BY <2>1, <3>1, <3>2 DEF Owes
  <2> QED
    BY <2>1 DEF LineIsOwn
<1> QED
  BY <1>1, Invariance, PTL

LEMMA WrittenBy ==
  ASSUME IInv, SessionNext, written' # written
  PROVE  \E h \in Callers : /\ RdtWrite(h) /\ helper[h] = "writing" /\ UNCHANGED calls
                            /\ \A c \in Callers : written'[c] # written[c] => c = serving[h]
<1>1. PICK h \in Callers : RdtWrite(h)
  BY DEF SessionNext, Session, Process, Rests, sessionVars, helpers, Call, UseAgain, Send, StartHelper,
         StartRefused, Ready, TakeLine, EndOfFile, TimesOut, Exited, Kill, Stop, StopHelper, Cancel,
         Connect, NextCommand, RdtRead, ReadsInVain, RdtReadFails, Crash
<1>2. written' = [written EXCEPT ![serving[h]] = @ + 1]
  BY <1>1 DEF RdtWrite
<1>3. \A c \in Callers : written'[c] # written[c] => c = serving[h]
  BY <1>2, TypeParts DEF IInv, HelpersOK
<1> QED
  BY <1>1, <1>3 DEF RdtWrite

\* No request reaches the gate twice, nor after its call returned, unless the call
\* was cancelled while it waited for the end of the helper (_async_stop_unlocked).
THEOREM InTime == SessionSpec => CommandsInTime
<1> DEFINE Timely ==
      \A c \in Callers : written'[c] # written[c] =>
        /\ written[c] = 0
        /\ phase[c] \in {"waiting", "stopping"} \/ outcome[c] = "cancelled"
<1>1. ASSUME IInv, SessionNext PROVE Timely
  <2>1. CASE written' = written
    BY <2>1
  <2>2. CASE written' # written
    <3>1. PICK h \in Callers : /\ helper[h] = "writing"
                               /\ \A c \in Callers : written'[c] # written[c] => c = serving[h]
      BY <1>1, <2>2, WrittenBy
    <3> QED
      BY <1>1, <3>1, Writing DEF Accounted
  <2> QED
    BY <2>1, <2>2
<1>2. IInv /\ [SessionNext]_sessionVars => [Timely]_sessionVars
  BY <1>1
<1> QED
  BY <1>2, Invariance, PTL DEF SessionSpec, CommandsInTime

-----------------------------------------------------------------------------
(***************************************************************************)
(* What NativeControl takes an exchange to be: a turn of the lock's holder *)
(* in which its request is carried out at most once, and an outcome that   *)
(* does not claim more than was done.                                      *)
(***************************************************************************)

Successes == {"received", "sent"}

\* A line that tells of an answer, or of a request that was sent.
ClaimsSent(line) == line.event = "answer" /\ (line.received \/ line.sent)

TruthInv ==
  /\ \A h \in Callers : helper[h] = "reading" => written[serving[h]] = 1
  /\ \A h \in Callers : \A i \in DOMAIN stdout[h] :
       ClaimsSent(stdout[h][i]) => written[stdout[h][i].of] = 1
  /\ \A c \in Callers : outcome[c] \in Successes => written[c] = 1

\* What is left of a pipe: all of it, nothing, or all but the first line.
Shorter(s, t) == t = s \/ t = <<>> \/ (s # <<>> /\ t = Tail(s))

LEMMA ShorterTells ==
  ASSUME NEW S, NEW s \in Seq(S), NEW t, Shorter(s, t), NEW i \in DOMAIN t
  PROVE  \E j \in DOMAIN s : t[i] = s[j]
<1>1. CASE t = s
  BY <1>1
<1>2. CASE t = <<>>
  BY <1>2
<1>3. CASE s # <<>> /\ t = Tail(s)
  BY <1>3, Tails
<1> QED
  BY <1>1, <1>2, <1>3 DEF Shorter

\* A step of a client neither writes nor makes a helper say more.
Quieter ==
  /\ UNCHANGED written
  /\ \A h \in Callers : /\ Shorter(stdout[h], stdout'[h])
                        /\ helper'[h] = "reading" => helper[h] = "reading" /\ serving'[h] = serving[h]

\* The outcome a client's step notes for it.
Notes(c, how) == outcome' = [outcome EXCEPT ![c] = how]

LEMMA StopHelperQuiet ==
  ASSUME HelpersOK, NEW c, NEW how, StopHelper(c, how)
  PROVE  Quieter /\ Notes(c, how)
<1>1. UNCHANGED <<helper, serving, written>> /\ Notes(c, how)
  BY DEF StopHelper, Return, Notes
<1>2. \A h \in Callers : stdout'[h] = stdout[h] \/ stdout'[h] = <<>>
  BY DEF StopHelper, HelpersOK
<1> QED
  BY <1>1, <1>2 DEF Quieter, Shorter

LEMMA ClientQuiet ==
  ASSUME IInv, TruthInv, NEW c \in Users,
         Call(c) \/ Session(c) \/ (c \in Callers /\ (StartRefused(c) \/ Cancel(c))) \/ (c = Stopper /\ Stop)
  PROVE  /\ Quieter
         /\ \/ UNCHANGED outcome
            \/ \E how : Notes(c, how) /\ (how \in Successes /\ c \in Callers => written[c] = 1)
<1>0. CallsOK /\ HelpersOK /\ LockInv /\ Serves /\ SessionInv
  BY TypeParts DEF IInv
<1> DEFINE Good == /\ Quieter
                   /\ \/ UNCHANGED outcome
                      \/ \E how : Notes(c, how) /\ (how \in Successes /\ c \in Callers => written[c] = 1)
<1>1. ASSUME NEW how, how \notin Successes, StopHelper(c, how) PROVE Good
  BY <1>0, <1>1, StopHelperQuiet
<1>2. CASE Call(c)
  BY <1>2 DEF Call, helpers, Quieter, Shorter
<1>3. CASE UseAgain(c)
  BY <1>3 DEF UseAgain, Send, Quieter, Shorter
<1>4. CASE StartHelper(c)
  BY <1>0, <1>4 DEF StartHelper, Quieter, Shorter, HelpersOK
<1>5. CASE Ready(c)
  <2>1. CASE StopHelper(c, "failed")
    BY <1>1, <2>1 DEF Successes
  <2>2. CASE ~StopHelper(c, "failed")
    BY <1>0, <1>5, <2>2 DEF Ready, Quieter, Shorter, HelpersOK
  <2> QED
    BY <2>1, <2>2
<1>6. CASE TakeLine(c)
  <2> DEFINE line == Head(stdout[process])
  <2>1. phase[c] = "waiting" /\ c \in Callers /\ Owes(process, c) /\ process \in Callers
        /\ stdout[process] # <<>> /\ stdout[process] \in Seq(Line)
    BY <1>0, <1>6, Names DEF TakeLine, Serves, SessionInv, CallsOK, HelpersOK
  <2>2. line = stdout[process][1] /\ 1 \in DOMAIN stdout[process]
    BY <2>1, Tails
  <2>3. line.event = "answer" => line.of = c
    BY <2>1, <2>2 DEF Owes
  <2>4. line.event = "answer" /\ OutcomeOf(line) \in Successes => written[c] = 1
    BY <2>1, <2>2, <2>3 DEF TruthInv, OutcomeOf, Successes, ClaimsSent
  <2> HIDE DEF line
  <2>5. CASE line.event # "answer"
    BY <1>1, <1>6, <2>5 DEF TakeLine, Successes, line
  <2>6. CASE line.event = "answer" /\ ~line.alive
    <3>1. StopHelper(c, OutcomeOf(line))
      BY <1>6, <2>6 DEF TakeLine, line
    <3> QED
      BY <1>0, <2>4, <2>6, <3>1, StopHelperQuiet
  <2>7. CASE line.event = "answer" /\ line.alive
    <3>1. /\ Notes(c, OutcomeOf(line)) /\ UNCHANGED <<helper, serving, written>>
          /\ stdout' = [stdout EXCEPT ![process] = Tail(@)]
      BY <1>6, <2>7 DEF TakeLine, Return, Notes, line
    <3> QED
      BY <1>0, <2>1, <2>4, <2>7, <3>1 DEF Quieter, Shorter, HelpersOK
  <2> QED
    BY <2>5, <2>6, <2>7
<1>7. CASE EndOfFile(c) \/ TimesOut(c)
  BY <1>1, <1>7 DEF EndOfFile, TimesOut, Successes
<1>8. ASSUME Exited(c) \/ Kill(c) \/ (c \in Callers /\ Cancel(c) /\ phase[c] = "stopping") PROVE Good
  <2>1. /\ UNCHANGED written
        /\ UNCHANGED <<helper, serving>> \/ \E h \in Callers : Gone(h)
        /\ \E how \in {outcome[c], "cancelled"} : Notes(c, how)
    BY <1>0, <1>8 DEF Exited, Kill, Cancel, Return, Notes, helpers, SessionInv, CallsOK, StopHelper
  <2>2. \A h \in Callers : stdout'[h] = stdout[h] \/ stdout'[h] = <<>>
    BY <1>0, <1>8 DEF Exited, Kill, Cancel, helpers, HelpersOK, StopHelper
  <2>3. Quieter
    BY <1>0, <2>1, <2>2 DEF Quieter, Shorter, Gone, HelpersOK
  <2> QED
    BY <2>1, <2>3 DEF TruthInv, Successes
<1>9. CASE c \in Callers /\ Cancel(c) /\ phase[c] # "stopping"
  <2>1. CASE StopHelper(c, "cancelled")
    BY <1>1, <2>1 DEF Successes
  <2>2. CASE ~StopHelper(c, "cancelled")
    BY <1>9, <2>2 DEF Cancel, Return, Notes, Quieter, Shorter, helpers, Successes
  <2> QED
    BY <2>1, <2>2
<1>10. CASE c \in Callers /\ StartRefused(c)
  <2>1. Notes(c, "failed") /\ UNCHANGED helpers
    BY <1>10 DEF StartRefused, Return, Notes
  <2> QED
    BY <2>1 DEF Quieter, Shorter, helpers, Successes
<1>11. CASE c = Stopper /\ Stop
  BY <1>1, <1>11 DEF Stop, Successes
<1> QED
  BY <1>2, <1>3, <1>4, <1>5, <1>6, <1>7, <1>8, <1>9, <1>10, <1>11 DEF Session

LEMMA QuietTruth ==
  ASSUME IInv, IInv', TruthInv, Quieter, NEW c \in Users,
         UNCHANGED outcome
         \/ \E how : Notes(c, how) /\ (how \in Successes /\ c \in Callers => written[c] = 1)
  PROVE  TruthInv'
<1>0. CallsOK /\ HelpersOK
  BY TypeParts DEF IInv
<1>1. UNCHANGED written
  BY DEF Quieter
<1>2. \A h \in Callers : helper'[h] = "reading" => written'[serving'[h]] = 1
  BY <1>1 DEF Quieter, TruthInv
<1>3. ASSUME NEW h \in Callers, NEW i \in DOMAIN stdout'[h], ClaimsSent(stdout'[h][i])
      PROVE  written'[stdout'[h][i].of] = 1
  <2>1. Shorter(stdout[h], stdout'[h]) /\ stdout[h] \in Seq(Line)
    BY <1>0 DEF Quieter, HelpersOK
  <2>2. PICK j \in DOMAIN stdout[h] : stdout'[h][i] = stdout[h][j]
    BY <1>3, <2>1, ShorterTells
  <2> QED
    BY <1>1, <1>3, <2>2 DEF TruthInv
<1>4. \A d \in Callers : outcome'[d] \in Successes => written'[d] = 1
  <2>1. CASE UNCHANGED outcome
    BY <1>1, <2>1 DEF TruthInv
  <2>2. ASSUME NEW how, Notes(c, how), how \in Successes /\ c \in Callers => written[c] = 1
        PROVE  \A d \in Callers : outcome'[d] \in Successes => written'[d] = 1
    BY <1>0, <1>1, <2>2, Names DEF Notes, TruthInv, CallsOK
  <2> QED
    BY <2>1, <2>2
<1> QED
  BY <1>2, <1>3, <1>4 DEF TruthInv, ClaimsSent

\* A step of a helper says no more than was written, and takes nothing back.
TellsTruth ==
  /\ UNCHANGED outcome
  /\ \A d \in Callers : written[d] = 1 => written'[d] = 1
  /\ \A g \in Callers : helper'[g] = "reading" => written'[serving'[g]] = 1
  /\ \A g \in Callers :
       \/ stdout'[g] = stdout[g]
       \/ \E line \in Line : /\ stdout'[g] = Append(stdout[g], line)
                             /\ ClaimsSent(line) => written[line.of] = 1

LEMMA AnswerTells ==
  ASSUME HelpersOK, TruthInv, NEW h \in Callers, serving[h] \in Callers,
         NEW r \in BOOLEAN, NEW s \in BOOLEAN, NEW a \in BOOLEAN, PrintAnswer(h, r, s, a),
         r \/ s => written[serving[h]] = 1, UNCHANGED <<calls, written>>,
         \/ helper' = [helper EXCEPT ![h] = "ready"] /\ serving' = [serving EXCEPT ![h] = Nobody]
         \/ Gone(h)
  PROVE  TellsTruth
<1> DEFINE line == [event |-> "answer", of |-> serving[h], received |-> r, sent |-> s, alive |-> a]
<1>1. line \in Line /\ line.of = serving[h] /\ (ClaimsSent(line) => r \/ s)
  BY Lines DEF ClaimsSent
<1>2. stdout' = [stdout EXCEPT ![h] = Append(@, line)]
  BY DEF PrintAnswer, PrintLine
<1> HIDE DEF line
<1>3. \A g \in Callers : stdout'[g] = stdout[g] \/ (g = h /\ stdout'[g] = Append(stdout[g], line))
  BY <1>2 DEF HelpersOK
<1>4. \A g \in Callers : helper'[g] = "reading" => helper[g] = "reading" /\ serving'[g] = serving[g]
  BY DEF HelpersOK, Gone
<1> QED
  BY <1>1, <1>3, <1>4 DEF TellsTruth, TruthInv, calls

LEMMA HelperTells ==
  ASSUME IInv, TruthInv, NEW h \in Callers, Process(h)
  PROVE  TellsTruth
<1>0. HelpersOK /\ Serves
  BY TypeParts DEF IInv
<1>1. CASE Connect(h)
  <2>1. PICK ok \in BOOLEAN :
          /\ stdout' = [stdout EXCEPT ![h] = Append(@, [event |-> "ready", ok |-> ok])]
          /\ (helper' = [helper EXCEPT ![h] = "ready"] /\ UNCHANGED serving) \/ Gone(h)
    BY <1>1 DEF Connect, PrintLine
  <2> DEFINE line == [event |-> "ready", ok |-> ok]
  <2>2. line \in Line /\ ~ClaimsSent(line)
    BY Lines DEF ClaimsSent
  <2>3. stdout' = [stdout EXCEPT ![h] = Append(@, line)]
    BY <2>1
  <2> HIDE DEF line
  <2>4. \A g \in Callers : stdout'[g] = stdout[g] \/ (g = h /\ stdout'[g] = Append(stdout[g], line))
    BY <1>0, <2>3 DEF HelpersOK
  <2>5. \A g \in Callers : helper'[g] = "reading" => helper[g] = "reading" /\ serving'[g] = serving[g]
    BY <1>0, <2>1 DEF HelpersOK, Gone
  <2>6. UNCHANGED <<outcome, written>>
    BY <1>1 DEF Connect, calls
  <2> QED
    BY <2>2, <2>4, <2>5, <2>6 DEF TellsTruth, TruthInv
<1>2. CASE NextCommand(h) \/ Crash(h)
  <2>1. UNCHANGED <<outcome, stdout, written>>
    BY <1>2 DEF NextCommand, Crash, calls
  <2>2. \A g \in Callers : helper'[g] = "reading" => helper[g] = "reading" /\ serving'[g] = serving[g]
    BY <1>0, <1>2 DEF NextCommand, Crash, HelpersOK, Gone
  <2> QED
    BY <2>1, <2>2 DEF TellsTruth, TruthInv
<1>3. CASE RdtWrite(h)
  <2>1. helper[h] = "writing" /\ serving[h] \in Callers /\ written[serving[h]] = 0 /\ UNCHANGED calls
    BY <1>3, Writing DEF RdtWrite
  <2>2. CASE ReportDead(h, FALSE) /\ UNCHANGED written
    BY <1>0, <2>1, <2>2, AnswerTells DEF ReportDead
  <2>3. CASE ~(ReportDead(h, FALSE) /\ UNCHANGED written)
    <3>1. /\ written' = [written EXCEPT ![serving[h]] = @ + 1]
          /\ helper' = [helper EXCEPT ![h] = "reading"]
          /\ UNCHANGED <<stdin, stdout, serving>>
      BY <1>3, <2>3 DEF RdtWrite
    <3>2. \A d \in Callers : written'[d] = IF d = serving[h] THEN 1 ELSE written[d]
      BY <1>0, <2>1, <3>1 DEF HelpersOK
    <3>3. \A g \in Callers : helper'[g] = "reading" => g = h \/ helper[g] = "reading"
      BY <1>0, <3>1 DEF HelpersOK
    <3>4. \A g \in Callers : helper[g] = "reading" => serving[g] \in Callers
      BY <1>0 DEF Serves
    <3> QED
      BY <2>1, <3>1, <3>2, <3>3, <3>4 DEF TellsTruth, TruthInv, calls
  <2> QED
    BY <2>2, <2>3
<1>4. CASE RdtRead(h) \/ ReadsInVain(h) \/ RdtReadFails(h)
  <2>1. helper[h] = "reading" /\ serving[h] \in Callers /\ written[serving[h]] = 1
        /\ UNCHANGED <<calls, written>>
    BY <1>0, <1>4 DEF RdtRead, ReadsInVain, RdtReadFails, Serves, TruthInv
  <2>2. CASE Report(h, TRUE) \/ Report(h, FALSE)
    BY <1>0, <2>1, <2>2, AnswerTells DEF Report
  <2>3. CASE ReportDead(h, TRUE)
    BY <1>0, <2>1, <2>3, AnswerTells DEF ReportDead
  <2>4. CASE UNCHANGED <<stdout, helper, serving>>
    BY <2>1, <2>4 DEF TellsTruth, TruthInv, calls
  <2> QED
    BY <1>4, <2>2, <2>3, <2>4 DEF RdtRead, ReadsInVain, RdtReadFails
<1> QED
  BY <1>1, <1>2, <1>3, <1>4 DEF Process

LEMMA TellingTruth == ASSUME IInv, TruthInv, TellsTruth PROVE TruthInv'
<1>0. HelpersOK
  BY TypeParts DEF IInv
<1>1. ASSUME NEW g \in Callers, NEW i \in DOMAIN stdout'[g], ClaimsSent(stdout'[g][i])
      PROVE  written'[stdout'[g][i].of] = 1
  <2>1. ASSUME NEW line, ClaimsSent(line), line \in Line, written[line.of] = 1
        PROVE  written'[line.of] = 1
    BY <2>1 DEF TellsTruth, Line, ClaimsSent
  <2>2. stdout[g] \in Seq(Line)
    BY <1>0 DEF HelpersOK
  <2>3. \A j \in DOMAIN stdout[g] : stdout[g][j] \in Line
    BY <2>2
  <2>4. CASE stdout'[g] = stdout[g]
    BY <1>1, <2>1, <2>3, <2>4 DEF TruthInv
  <2>5. ASSUME NEW line \in Line, stdout'[g] = Append(stdout[g], line),
               ClaimsSent(line) => written[line.of] = 1
        PROVE  written'[stdout'[g][i].of] = 1
    <3>1. /\ \A j \in DOMAIN stdout[g] : stdout'[g][j] = stdout[g][j]
          /\ i \in DOMAIN stdout[g] \/ stdout'[g][i] = line
      BY <2>2, <2>5, Appends
    <3> QED
      BY <1>1, <2>1, <2>3, <2>5, <3>1 DEF TruthInv
  <2> QED
    BY <2>4, <2>5 DEF TellsTruth
<1>2. \A d \in Callers : outcome'[d] \in Successes => written'[d] = 1
  BY DEF TellsTruth, TruthInv
<1> QED
  BY <1>1, <1>2 DEF TruthInv, TellsTruth, ClaimsSent

LEMMA TruthInit == ASSUME SessionInit PROVE TruthInv
BY Names DEF SessionInit, TruthInv, Successes

LEMMA TruthStep == ASSUME IInv, IInv', TruthInv, [SessionNext]_sessionVars PROVE TruthInv'
<1>1. ASSUME NEW c \in Users,
             Call(c) \/ Session(c) \/ (c \in Callers /\ (StartRefused(c) \/ Cancel(c)))
             \/ (c = Stopper /\ Stop)
      PROVE  TruthInv'
  BY <1>1, ClientQuiet, QuietTruth
<1>2. ASSUME NEW h \in Callers, Process(h) PROVE TruthInv'
  BY <1>2, HelperTells, TellingTruth
<1>3. CASE UNCHANGED sessionVars
  BY <1>3 DEF sessionVars, calls, helpers, TruthInv
<1> QED
  BY <1>1, <1>2, <1>3, Names DEF SessionNext, Rests

\* A call that returns an answer, or that it was sent, has had its request written to
\* the gate: NativeControl lets an exchange succeed, or be unacknowledged, only when the
\* gate got it (ouranos_native_session.py, _async_exchange; the helper's send_exchange).
THEOREM OutcomesAreTrue ==
  SessionSpec => [](\A c \in Callers : outcome[c] \in {"received", "sent"} => written[c] = 1)
<1>1. SessionInit => IInv /\ TruthInv
  BY InitInv, TruthInit
<1>2. IInv /\ TruthInv /\ [SessionNext]_sessionVars => (IInv /\ TruthInv)'
  BY NextKeeps, TruthStep
<1>3. TruthInv => \A c \in Callers : outcome[c] \in {"received", "sent"} => written[c] = 1
  BY DEF TruthInv, Successes
<1> QED
  BY <1>1, <1>2, <1>3, PTL DEF SessionSpec

\* Requests are written in turn: the one whose call holds the session's lock, so that at
\* most one exchange is under way, unless the call was cancelled (async_send's lock).
THEOREM WrittenInTurn ==
  SessionSpec => [][\A c \in Callers : written'[c] # written[c] =>
                      Holds(c) \/ outcome[c] = "cancelled"]_sessionVars
<1> DEFINE InTurn == \A c \in Callers : written'[c] # written[c] => Holds(c) \/ outcome[c] = "cancelled"
<1>1. ASSUME IInv, SessionNext PROVE InTurn
  <2>1. CASE written' = written
    BY <2>1
  <2>2. CASE written' # written
    <3>1. PICK h \in Callers : /\ helper[h] = "writing"
                               /\ \A c \in Callers : written'[c] # written[c] => c = serving[h]
      BY <1>1, <2>2, WrittenBy
    <3>2. serving[h] \in Callers /\ Accounted(h, serving[h])
      BY <1>1, <3>1, Writing
    <3>3. phase[serving[h]] \in Active => Holds(serving[h])
      BY <1>1, <3>2, Names DEF IInv, LockInv
    <3> QED
      BY <3>1, <3>2, <3>3 DEF Accounted, Active
  <2> QED
    BY <2>1, <2>2
<1>2. IInv /\ [SessionNext]_sessionVars => [InTurn]_sessionVars
  BY <1>1
<1> QED
  BY <1>2, Invariance, PTL DEF SessionSpec

(***************************************************************************)
(* A session nobody cancels keeps the promise of OneShot: the lock is its  *)
(* exchange, "received" its success.                                       *)
(***************************************************************************)

ShownOf(p, how) ==
  CASE p = "idle" -> "new"
    [] p = "queued" -> "asked"
    [] p \in Active -> "open"
    [] p = "returned" -> IF how = "received" THEN "success" ELSE "failure"

Shown == [c \in Callers |-> ShownOf(phase[c], outcome[c])]

Promise == INSTANCE OneShot WITH Calls <- Callers, phase <- Shown, sent <- written

NoneCancelled == \A c \in Callers : outcome[c] # "cancelled"

\* Where a step may take a call, and with what outcome.
MayMove(c, p, how) ==
  \/ phase[c] = "idle" /\ p = "queued"
  \/ phase[c] = "queued" /\ p \in {"starting", "waiting"} /\ Holds(c)
  \/ phase[c] = "queued" /\ p = "returned" /\ how = "failed"
  \/ phase[c] \in Active /\ p \in Active \cup {"returned"}

Moves(c, p, how) ==
  /\ phase' = [phase EXCEPT ![c] = p] /\ outcome' = [outcome EXCEPT ![c] = how]
  /\ c \in Callers => MayMove(c, p, how)
  /\ how # "cancelled" \/ how = outcome[c]

Movable(c) == \E p, how : Moves(c, p, how)

LEMMA StopHelperMoves ==
  ASSUME NEW c \in Users, NEW how, how # "cancelled", StopHelper(c, how),
         c \in Callers => phase[c] \in Active
  PROVE  Movable(c)
<1>1. phase' = [phase EXCEPT ![c] = "stopping"] \/ phase' = [phase EXCEPT ![c] = "returned"]
  BY DEF StopHelper, Return
<1>2. outcome' = [outcome EXCEPT ![c] = how]
  BY DEF StopHelper, Return
<1>3. c \in Callers => MayMove(c, "stopping", how) /\ MayMove(c, "returned", how)
  BY DEF MayMove, Active
<1>4. CASE phase' = [phase EXCEPT ![c] = "stopping"]
  <2>1. Moves(c, "stopping", how)
    BY <1>2, <1>3, <1>4 DEF Moves
  <2> QED
    BY <2>1 DEF Movable
<1>5. CASE phase' = [phase EXCEPT ![c] = "returned"]
  <2>1. Moves(c, "returned", how)
    BY <1>2, <1>3, <1>5 DEF Moves
  <2> QED
    BY <2>1 DEF Movable
<1> QED
  BY <1>1, <1>4, <1>5

LEMMA ReturnMoves ==
  ASSUME NEW c \in Users, NEW how, how # "cancelled" \/ how = outcome[c], Return(c, how),
         phase[c] \in Active \/ (phase[c] = "queued" /\ how = "failed")
  PROVE  Movable(c)
<1>1. MayMove(c, "returned", how)
  BY DEF MayMove
<1> QED
  BY <1>1 DEF Return, Movable, Moves

LEMMA PhaseMoves ==
  ASSUME CallsOK, NEW c \in Users, NEW p, phase' = [phase EXCEPT ![c] = p], UNCHANGED outcome,
         MayMove(c, p, outcome[c])
  PROVE  Movable(c)
<1>1. outcome' = [outcome EXCEPT ![c] = outcome[c]]
  BY DEF CallsOK
<1> QED
  BY <1>1 DEF Movable, Moves

LEMMA ClientMoves ==
  ASSUME IInv, NEW c \in Users,
         Call(c) \/ Session(c) \/ (c \in Callers /\ StartRefused(c)) \/ (c = Stopper /\ Stop)
  PROVE  Movable(c)
<1>0. CallsOK
  BY TypeParts DEF IInv
<1>1. CASE Call(c)
  <2>1. phase[c] = "idle" /\ phase' = [phase EXCEPT ![c] = "queued"] /\ UNCHANGED outcome
    BY <1>1 DEF Call
  <2> QED
    BY <1>0, <2>1, PhaseMoves DEF MayMove
<1>2. CASE UseAgain(c) \/ StartHelper(c)
  <2>1. UNCHANGED outcome /\ phase[c] = "queued" /\ Holds(c)
    BY <1>2 DEF UseAgain, Send, StartHelper
  <2>2. PICK p \in {"starting", "waiting"} : phase' = [phase EXCEPT ![c] = p]
    BY <1>2 DEF UseAgain, Send, StartHelper
  <2>3. MayMove(c, p, outcome[c])
    BY <2>1 DEF MayMove
  <2> QED
    BY <1>0, <2>1, <2>2, <2>3, PhaseMoves
<1>3. CASE Ready(c)
  <2>1. phase[c] = "starting"
    BY <1>3 DEF Ready
  <2>2. StopHelper(c, "failed") \/ (phase' = [phase EXCEPT ![c] = "waiting"] /\ UNCHANGED outcome)
    BY <1>3 DEF Ready
  <2>3. CASE StopHelper(c, "failed")
    BY <2>1, <2>3, StopHelperMoves DEF Active
  <2>4. MayMove(c, "waiting", outcome[c])
    BY <2>1 DEF MayMove, Active
  <2> QED
    BY <1>0, <2>2, <2>3, <2>4, PhaseMoves
<1>4. CASE TakeLine(c)
  <2> DEFINE how == OutcomeOf(Head(stdout[process]))
  <2>1. phase[c] \in Active
    BY <1>4 DEF TakeLine, Active
  <2>2. how # "cancelled"
    BY DEF OutcomeOf
  <2>3. StopHelper(c, "failed") \/ StopHelper(c, how) \/ Return(c, how)
    BY <1>4 DEF TakeLine
  <2> HIDE DEF how
  <2>4. CASE StopHelper(c, "failed")
    BY <2>1, <2>4, StopHelperMoves
  <2>5. CASE StopHelper(c, how)
    BY <2>1, <2>2, <2>5, StopHelperMoves
  <2>6. CASE Return(c, how)
    BY <2>1, <2>2, <2>6, ReturnMoves
  <2> QED
    BY <2>3, <2>4, <2>5, <2>6
<1>5. CASE EndOfFile(c) \/ TimesOut(c)
  <2>1. phase[c] \in Active /\ StopHelper(c, "failed")
    BY <1>5 DEF EndOfFile, TimesOut, Active
  <2> QED
    BY <2>1, StopHelperMoves
<1>6. CASE Exited(c) \/ Kill(c)
  <2>1. phase[c] \in Active /\ Return(c, outcome[c])
    BY <1>6 DEF Exited, Kill, Active
  <2> QED
    BY <2>1, ReturnMoves
<1>7. CASE c \in Callers /\ StartRefused(c)
  <2>1. phase[c] = "queued" /\ Return(c, "failed")
    BY <1>7 DEF StartRefused
  <2> QED
    BY <2>1, ReturnMoves
<1>8. CASE c = Stopper /\ Stop
  <2>1. StopHelper(c, "stopped") /\ c \notin Callers
    BY <1>8, Names DEF Stop
  <2> QED
    BY <2>1, StopHelperMoves
<1> QED
  BY <1>1, <1>2, <1>3, <1>4, <1>5, <1>6, <1>7, <1>8 DEF Session

LEMMA MovesAreSteps ==
  ASSUME IInv, TruthInv', NEW c \in Users, NEW p, NEW how, Moves(c, p, how), UNCHANGED written
  PROVE  [Promise!Next]_Promise!vars
<1>0. CallsOK /\ LockInv
  BY TypeParts DEF IInv
<1>1. \A d \in Users : /\ phase'[d] = IF d = c THEN p ELSE phase[d]
                       /\ outcome'[d] = IF d = c THEN how ELSE outcome[d]
  BY <1>0 DEF Moves, CallsOK
<1>2. \A d \in Callers : d # c => Shown'[d] = Shown[d]
  BY <1>1, Names DEF Shown
<1>3. CASE c \notin Callers
  BY <1>2, <1>3 DEF Shown, Promise!vars
<1>4. CASE c \in Callers
  <2>1. Shown[c] = ShownOf(phase[c], outcome[c]) /\ Shown'[c] = ShownOf(p, how)
    BY <1>1, <1>4, Names DEF Shown
  <2>2. Shown' = [Shown EXCEPT ![c] = ShownOf(p, how)]
    BY <1>2, <1>4, <2>1 DEF Shown
  <2>3. \A d \in Callers : Shown[d] = "open" => phase[d] \in Active
    BY <1>0, Names DEF Shown, ShownOf, CallsOK, Phases, Active
  <2> HIDE DEF Shown
  <2>4. CASE phase[c] = "idle" /\ p = "queued"
    BY <1>4, <2>1, <2>2, <2>4 DEF ShownOf, Active, Promise!Next, Promise!Ask
  <2>5. CASE phase[c] = "queued" /\ p \in {"starting", "waiting"} /\ Holds(c)
    <3>1. \A d \in Callers : Shown[d] # "open"
      <4>1. ASSUME NEW d \in Callers, Shown[d] = "open" PROVE FALSE
        <5>1. d = c
          BY <1>0, <1>4, <2>3, <2>5, <4>1, Solo, Names
        <5> QED
          BY <2>3, <2>5, <4>1, <5>1 DEF Active
      <4> QED
        BY <4>1
    <3> QED
      BY <1>4, <2>1, <2>2, <2>5, <3>1 DEF ShownOf, Active, Promise!Next, Promise!Open
  <2>6. CASE phase[c] = "queued" /\ p = "returned" /\ how = "failed"
    BY <1>4, <2>1, <2>2, <2>6 DEF ShownOf, Active, Promise!Next, Promise!Refuse
  <2>7. CASE phase[c] \in Active /\ p \in Active
    <3>1. Shown' = Shown
      BY <2>1, <2>2, <2>7 DEF ShownOf, Active, Shown
    <3> QED
      BY <3>1 DEF Promise!vars
  <2>8. CASE phase[c] \in Active /\ p = "returned"
    <3>1. how = "received" => written[c] = 1
      BY <1>1, <1>4, Names DEF TruthInv, Successes
    <3>2. Shown[c] = "open"
      BY <2>1, <2>8 DEF ShownOf, Active
    <3>3. ShownOf(p, how) = IF how = "received" THEN "success" ELSE "failure"
      BY <2>8 DEF ShownOf, Active
    <3> QED
      BY <1>4, <2>2, <3>1, <3>2, <3>3 DEF Promise!Next, Promise!Close, Promise!Verdicts
  <2> QED
    BY <1>4, <2>4, <2>5, <2>6, <2>7, <2>8 DEF Moves, MayMove
<1> QED
  BY <1>3, <1>4

LEMMA WritesAreSends ==
  ASSUME IInv, NoneCancelled, NEW h \in Callers, RdtWrite(h)
  PROVE  [Promise!Next]_Promise!vars
<1>0. CallsOK /\ HelpersOK
  BY TypeParts DEF IInv
<1> DEFINE c == serving[h]
<1>1. c \in Callers /\ written[c] = 0 /\ Accounted(h, c)
  BY Writing DEF RdtWrite
<1>2. written' = written \/ written' = [written EXCEPT ![c] = @ + 1]
  BY DEF RdtWrite
<1>3. Shown' = Shown
  BY DEF RdtWrite, calls, Shown
<1>4. Shown[c] = "open"
  BY <1>1 DEF Accounted, NoneCancelled, Shown, ShownOf, Active
<1> HIDE DEF c
<1>5. CASE written' = written
  BY <1>3, <1>5 DEF Promise!vars
<1>6. CASE written' = [written EXCEPT ![c] = @ + 1]
  <2>1. written' = [written EXCEPT ![c] = 1]
    BY <1>0, <1>1, <1>6 DEF HelpersOK
  <2> QED
    BY <1>1, <1>3, <1>4, <2>1 DEF Promise!Next, Promise!Send
<1> QED
  BY <1>2, <1>5, <1>6

LEMMA PromisedStep ==
  ASSUME (cancels = 0)', IInv, IInv', TruthInv, TruthInv', NoneCancelled, [SessionNext]_sessionVars
  PROVE  [Promise!Next]_Promise!vars /\ NoneCancelled'
<1>0. CallsOK /\ cancels \in Nat
  BY TypeParts, FailuresAssumption DEF IInv, SessionTypeOK
<1>1. \A c \in Callers : ~Cancel(c)
  BY <1>0 DEF Cancel
<1>2. ASSUME NEW c \in Users,
             Call(c) \/ Session(c) \/ (c \in Callers /\ StartRefused(c)) \/ (c = Stopper /\ Stop)
      PROVE  [Promise!Next]_Promise!vars /\ NoneCancelled'
  <2>1. PICK p, how : Moves(c, p, how)
    BY <1>2, ClientMoves DEF Movable
  <2>2. UNCHANGED written
    BY <1>2, ClientQuiet DEF Quieter
  <2>3. NoneCancelled'
    BY <1>0, <2>1, Names DEF Moves, NoneCancelled, CallsOK
  <2> QED
    BY <2>1, <2>2, <2>3, MovesAreSteps
<1>3. ASSUME NEW h \in Callers, Process(h)
      PROVE  [Promise!Next]_Promise!vars /\ NoneCancelled'
  <2>1. UNCHANGED calls
    BY <1>3 DEF Process, Connect, NextCommand, RdtWrite, RdtRead, ReadsInVain, RdtReadFails, Crash
  <2>2. CASE RdtWrite(h)
    BY <2>1, <2>2, WritesAreSends DEF NoneCancelled, calls
  <2>3. CASE ~RdtWrite(h)
    <3>1. written' = written
      BY <1>3, <2>3 DEF Process, Connect, NextCommand, RdtRead, ReadsInVain, RdtReadFails, Crash
    <3> QED
      BY <2>1, <3>1 DEF NoneCancelled, calls, Shown, Promise!vars
  <2> QED
    BY <2>2, <2>3
<1>4. CASE UNCHANGED sessionVars
  BY <1>4 DEF sessionVars, calls, helpers, NoneCancelled, Shown, Promise!vars
<1> QED
  BY <1>1, <1>2, <1>3, <1>4, Names DEF SessionNext, Rests

\* As long as no call is cancelled, an exchange of the session is what OneShot promises of a
\* command: taken up one at a time, written at most once and only while it is taken up, and
\* successful only if it was written (async_send, async_stop, the helper's main loop).
THEOREM KeepsPromise == SessionSpec /\ [](cancels = 0) => Promise!SafetySpec
<1>1. SessionInit => IInv /\ TruthInv /\ NoneCancelled /\ Promise!Init
  <2>1. ASSUME SessionInit PROVE Promise!Init /\ NoneCancelled
    <3>1. /\ \A c \in Callers : phase[c] = "idle" /\ outcome[c] = "none"
          /\ written = [c \in Callers |-> 0]
      BY <2>1, Names DEF SessionInit
    <3>2. Shown = [c \in Callers |-> "new"]
      BY <3>1 DEF Shown, ShownOf, Active
    <3> QED
      BY <3>1, <3>2 DEF Promise!Init, NoneCancelled
  <2> QED
    BY <2>1, InitInv, TruthInit
<1>2. IInv /\ TruthInv /\ NoneCancelled /\ [SessionNext]_sessionVars /\ (cancels = 0)'
      => (IInv /\ TruthInv /\ NoneCancelled)' /\ [Promise!Next]_Promise!vars
  BY NextKeeps, TruthStep, PromisedStep
<1> QED
  BY <1>1, <1>2, PTL DEF SessionSpec, Promise!SafetySpec

------------------------------------------------------------------------------
(***************************************************************************)
(* NativeControl                                                           *)
(***************************************************************************)

\* What the proofs need of the two ends of a lock's queue.
LEMMA AppendFacts ==
  ASSUME NEW S, NEW s \in Seq(S), NEW c \in S
  PROVE  /\ Append(s, c) \in Seq(S)
         /\ Append(s, c) # <<>>
         /\ s # <<>> => Head(Append(s, c)) = Head(s)
         /\ s = <<>> => Head(Append(s, c)) = c
OBVIOUS

LEMMA TailFacts ==
  ASSUME NEW S, NEW s \in Seq(S), s # <<>>
  PROVE  Tail(s) \in Seq(S) /\ Head(s) \in S
OBVIOUS

LEMMA OutcomeType ==
  ASSUME NEW kind \in Outcomes
  PROVE  Outcome(kind) \in Answers /\ Outcome(kind).frame.operating = "unknown"
BY MalformedType DEF Outcome, Answers, Malformed

LEMMA NoAnswerType == NoAnswer \in Answers
BY OutcomeType DEF NoAnswer, Outcomes

\* A status frame keeps the shown state and its flags typed.
LEMMA StatusAppliedType ==
  ASSUME TypeOK, StatusApplied
  PROVE  /\ hub' \in State
         /\ opFresh' \in BOOLEAN /\ stopGuard' \in BOOLEAN /\ statusFresh' \in BOOLEAN
<1>1. answer.frame \in StatusFrame
  BY DEF TypeOK, Answers
<1>2. CASE answer.kind # "frame"
  BY <1>2 DEF StatusApplied, shownVars, TypeOK
<1>3. CASE answer.kind = "frame" /\ Stale(answer.frame)
  BY <1>3 DEF StatusApplied, TypeOK
<1>4. CASE answer.kind = "frame" /\ ~Stale(answer.frame)
  BY <1>1, <1>4, ApplyNativeOK DEF StatusApplied, TypeOK
<1> QED
  BY <1>2, <1>3, <1>4

----------------------------------------------------------------------------
(***************************************************************************)
(* Types and locks                                                         *)
(***************************************************************************)

\* A settlement under way has reads left.
RoundsLeft == \A c \in Calls \ Tests : pc[c] \in {"resting", "reading"} => rounds[c] > 0

TInv == TypeOK /\ LocksHeld /\ RoundsLeft

LEMMA TypeInit == Init => TInv
<1> SUFFICES ASSUME Init PROVE TInv
  OBVIOUS
<1>1. gate \in Gates /\ told \in Gates /\ hub \in State /\ answer \in Answers
  BY NoAnswerType
     DEF Init, GatesAtRest, Unknown, State, ShownPositions, Movements, Operating
<1>2. /\ pc \in [Clients -> Stages] /\ rounds \in [Calls -> 0..SettleRounds]
      /\ result \in [Calls -> Results] /\ faults \in 0..MaxFaults
  BY BoundsAssumption DEF Init, Stages, Results
<1>3. transaction \in Seq(Calls) /\ refresh \in Seq(Clients) /\ session \in Seq(Clients)
  BY DEF Init
<1>4. TypeOK
  BY <1>1, <1>2, <1>3 DEF Init, TypeOK, Operating
<1>5. LocksHeld /\ RoundsLeft
  BY DEF Init, LocksHeld, RoundsLeft, Clients, Tests
<1> QED
  BY <1>4, <1>5 DEF TInv

LEMMA TypeStep == TInv /\ [Next]_vars => TypeOK'
<1> SUFFICES ASSUME TypeOK, LocksHeld, RoundsLeft, [Next]_vars PROVE TypeOK'
  BY DEF TInv
<1> USE DEF TypeOK, Clients, gateVars, lockVars, shownVars, historyVars
<1>0. /\ Tests \subseteq Calls
      /\ \A c \in Calls : MotionOf(AskedFor[c]) \in Movements /\ AskedFor[c] \in Commands
  BY CallsAssumption, MotionOfType DEF Tests
<1>1. ASSUME NEW d \in Remote, RemoteControl(d) PROVE TypeOK'
  BY <1>1, RemoteAssumption, SteeredType DEF RemoteControl
<1>2. CASE Travels
  BY <1>2, AdvancedType DEF Travels
<1>3. CASE Tells
  BY <1>3 DEF Tells
<1>4. ASSUME NEW c \in Calls, AskCover(c) PROVE TypeOK'
  <2>1. transaction' \in Seq(Calls)
    <3>1. Append(transaction, c) \in Seq(Calls)
      BY AppendFacts
    <3> QED
      BY <1>4, <3>1 DEF AskCover
  <2>2. pc' \in [Clients -> Stages] /\ result' \in [Calls -> Results]
    BY <1>4 DEF AskCover, Stages, Results
  <2>3. stopGuard' \in BOOLEAN /\ steady' \in BOOLEAN
    BY <1>4 DEF AskCover
  <2> QED
    BY <1>4, <2>1, <2>2, <2>3 DEF AskCover
<1>5. ASSUME NEW c \in Clients, Knock(c) PROVE TypeOK'
  BY <1>5, AppendFacts DEF Knock, Stages
<1>6. ASSUME NEW c \in Calls, Acquire(c) PROVE TypeOK'
  <2>1. session' \in Seq(Clients) /\ begun' \in Operating
    BY <1>6, AppendFacts DEF Acquire, State
  <2> QED
    BY <1>6, <2>1 DEF Acquire, Stages
<1>7. ASSUME NEW c \in Clients, Enter(c) PROVE TypeOK'
  <2>1. session' \in Seq(Clients) /\ refresh' \in Seq(Clients)
    <3>1. Append(session, c) \in Seq(Clients) /\ Tail(refresh) \in Seq(Clients)
      BY <1>7, AppendFacts, TailFacts DEF Enter
    <3> QED
      BY <1>7, <3>1 DEF Enter
  <2>2. pc' \in [Clients -> Stages] /\ result' \in [Calls -> Results]
    BY <1>7 DEF Enter, Stages, Results
  <2> QED
    BY <1>7, <2>1, <2>2 DEF Enter
<1>8. ASSUME NEW c \in Calls, ServeCommand(c) PROVE TypeOK'
  <2>1. answer' \in Answers
    BY <1>8, OutcomeType DEF ServeCommand, Outcomes
  <2>2. gate' \in Gates
    BY <1>0, <1>8, SteeredType DEF ServeCommand
  <2> QED
    BY <1>8, <2>1, <2>2 DEF ServeCommand, Answers
<1>9. ASSUME NEW c \in Clients, ServeRead(c) PROVE TypeOK'
  <2>1. answer' \in Answers
    BY <1>9, OutcomeType, SnapshotType DEF ServeRead, Outcomes, Answers
  <2>2. faults' \in 0..MaxFaults
    BY <1>9, BoundsAssumption DEF ServeRead
  <2> QED
    BY <1>9, <2>1, <2>2 DEF ServeRead, Answers
<1>10. ASSUME NEW c \in Calls, CoverReturns(c) PROVE TypeOK'
  <2>1. transaction # <<>> /\ session # <<>>
    BY <1>10 DEF CoverReturns, TransactionAfter, Answered, LocksHeld
  <2>2. transaction' \in Seq(Calls) /\ session' \in Seq(Clients)
    BY <1>10, <2>1, TailFacts DEF CoverReturns, TransactionAfter
  <2>3. Verdict(c) \in Results
    BY DEF Verdict, Results
  <2>4. hub' \in State
    BY <1>0, <1>10, AfterCommandOK DEF CoverReturns, TransactionAfter
  <2>5. rounds' \in [Calls -> 0..SettleRounds] /\ pc' \in [Clients -> Stages]
    <3>1. SettleRounds \in 0..SettleRounds
      BY BoundsAssumption
    <3> QED
      BY <1>10, <3>1 DEF CoverReturns, TransactionAfter, Stages
  <2>6. stopGuard' \in BOOLEAN /\ steady' \in BOOLEAN
    BY <1>10 DEF CoverReturns, TransactionAfter
  <2> QED
    BY <1>10, <2>2, <2>3, <2>4, <2>5, <2>6, NoAnswerType DEF CoverReturns, TransactionAfter, Answers
<1>11. ASSUME NEW c \in Calls, Rest(c) PROVE TypeOK'
  BY <1>11, AppendFacts DEF Rest, Stages
<1>12. ASSUME NEW c \in Calls, SettlementReturns(c) PROVE TypeOK'
  <2>1. session' \in Seq(Clients)
    BY <1>12, TailFacts DEF SettlementReturns, Answered
  <2>2. /\ hub' \in State
        /\ opFresh' \in BOOLEAN /\ stopGuard' \in BOOLEAN /\ statusFresh' \in BOOLEAN
    BY <1>12, StatusAppliedType DEF SettlementReturns
  <2>3. pc' \in [Clients -> Stages]
    BY <1>12 DEF SettlementReturns, Stages
  <2>4. rounds' \in [Calls -> 0..SettleRounds]
    <3>1. rounds[c] - 1 \in 0..SettleRounds
      BY <1>12, BoundsAssumption DEF SettlementReturns, Answered, RoundsLeft
    <3> QED
      BY <1>12, <3>1 DEF SettlementReturns
  <2> QED
    BY <1>12, <2>1, <2>2, <2>3, <2>4, NoAnswerType DEF SettlementReturns, Answers
<1>13. ASSUME NEW c \in Calls, TestReturns(c) PROVE TypeOK'
  <2>1. refresh # <<>> /\ session # <<>>
    BY <1>13 DEF TestReturns, Answered, LocksHeld
  <2>2. refresh' \in Seq(Clients) /\ session' \in Seq(Clients)
    BY <1>13, <2>1, TailFacts DEF TestReturns, RefreshAfterTest
  <2>3. hub' \in State
    BY <1>13 DEF TestReturns, State, Movements, Operating
  <2>4. stopGuard' \in BOOLEAN /\ steady' \in BOOLEAN
    BY <1>13 DEF TestReturns
  <2>5. pc' \in [Clients -> Stages] /\ result' \in [Calls -> Results]
    BY <1>13 DEF TestReturns, Stages, Results
  <2> QED
    BY <1>13, <2>2, <2>3, <2>4, <2>5, NoAnswerType DEF TestReturns, Answers
<1>14. ASSUME NEW c \in Calls, TestEnds(c) PROVE TypeOK'
  <2>1. refresh # <<>> /\ session # <<>>
    BY <1>14 DEF TestEnds, Answered, LocksHeld
  <2>2. refresh' \in Seq(Clients) /\ session' \in Seq(Clients)
    BY <1>14, <2>1, TailFacts DEF TestEnds
  <2>3. pc' \in [Clients -> Stages] /\ result' \in [Calls -> Results]
    BY <1>14 DEF TestEnds, Stages, Results
  <2> QED
    BY <1>14, <2>2, <2>3, StatusAppliedType, NoAnswerType DEF TestEnds, Answers
<1>15. CASE PollReturns
  <2>1. refresh # <<>> /\ session # <<>>
    BY <1>15 DEF PollReturns, Answered, LocksHeld
  <2>2. refresh' \in Seq(Clients) /\ session' \in Seq(Clients)
    BY <1>15, <2>1, TailFacts DEF PollReturns
  <2> QED
    BY <1>15, <2>2, StatusAppliedType, NoAnswerType DEF PollReturns, Answers, Stages
<1>16. CASE GuardEnds
  BY <1>16 DEF GuardEnds
<1>17. CASE StatusAges
  BY <1>17 DEF StatusAges
<1>18. CASE UNCHANGED vars
  BY <1>18 DEF vars
<1> QED
  BY <1>1, <1>2, <1>3, <1>4, <1>5, <1>6, <1>7, <1>8, <1>9, <1>10, <1>11, <1>12, <1>13,
     <1>14, <1>15, <1>16, <1>17, <1>18 DEF Next, Steps

\* Appending to the session's queue leaves a pending answer with its holder, and
\* taking the head away leaves no answer.
LEMMA LocksStep == TInv /\ [Next]_vars => LocksHeld' /\ RoundsLeft'
<1> SUFFICES ASSUME TypeOK, LocksHeld, RoundsLeft, [Next]_vars
             PROVE  LocksHeld' /\ RoundsLeft'
  BY DEF TInv
<1> DEFINE Covers == Calls \ Tests
           Pollers == Tests \cup {Poller}
<1>0. /\ Covers \subseteq Clients /\ Pollers \subseteq Clients
      /\ Covers \cap Pollers = {} /\ Covers \cup Pollers = Clients
      /\ Poller \notin Calls /\ Poller \notin Covers
  BY CallsAssumption DEF Tests, Clients
<1> USE DEF LocksHeld, RoundsLeft
<1>t. /\ pc \in [Clients -> Stages]
      /\ transaction \in Seq(Calls) /\ refresh \in Seq(Clients) /\ session \in Seq(Clients)
      /\ rounds \in [Calls -> 0..SettleRounds]
  BY DEF TypeOK
<1>1. CASE UNCHANGED <<pc, transaction, refresh, session, answer, rounds>>
  BY <1>1
<1>2. ASSUME NEW c \in Calls, AskCover(c) PROVE LocksHeld' /\ RoundsLeft'
  <2>1. \A d \in Clients : pc'[d] \in {"asking", "resting", "reading"} => pc[d] = pc'[d]
    BY <1>t, <1>2 DEF AskCover, Clients
  <2>2. transaction # <<>> => transaction' # <<>> /\ Head(transaction') = Head(transaction)
    <3>1. transaction' \in {transaction, Append(transaction, c)}
      BY <1>2 DEF AskCover
    <3>2. transaction \in Seq(Calls) /\ c \in Calls
      BY <1>t
    <3>3. transaction # <<>> => /\ Append(transaction, c) # <<>>
                                /\ Head(Append(transaction, c)) = Head(transaction)
      BY <3>2, AppendFacts
    <3> QED
      BY <3>1, <3>3
  <2>3. UNCHANGED <<refresh, session, answer, rounds>>
    BY <1>2 DEF AskCover
  <2>4. answer # NoAnswer => pc'[Head(session)] = pc[Head(session)]
    BY <1>t, <1>2 DEF AskCover
  <2> QED
    BY <1>0, <2>1, <2>2, <2>3, <2>4
<1>3. ASSUME NEW c \in Clients, Knock(c) PROVE LocksHeld' /\ RoundsLeft'
  <2>1. \A d \in Clients : pc'[d] \in {"asking", "resting", "reading"} => pc[d] = pc'[d]
    BY <1>t, <1>3 DEF Knock
  <2>2. refresh # <<>> => refresh' # <<>> /\ Head(refresh') = Head(refresh)
    BY <1>t, <1>3, AppendFacts DEF Knock
  <2>3. UNCHANGED <<transaction, session, answer, rounds>>
    BY <1>3 DEF Knock
  <2>4. answer # NoAnswer => pc'[Head(session)] = pc[Head(session)]
    BY <1>t, <1>3 DEF Knock
  <2> QED
    BY <1>0, <2>1, <2>2, <2>3, <2>4
<1>4. ASSUME NEW c \in Calls, Acquire(c) PROVE LocksHeld' /\ RoundsLeft'
  <2>1. /\ transaction # <<>> /\ c = Head(transaction) /\ c \in Clients
        /\ UNCHANGED <<transaction, refresh, answer, rounds>>
        /\ pc[c] = "queued" /\ pc' = [pc EXCEPT ![c] = "asking"]
    BY <1>4 DEF Acquire, Clients
  <2>2. session # <<>> => session' # <<>> /\ Head(session') = Head(session)
    BY <1>t, <1>4, <2>1, AppendFacts DEF Acquire
  <2>3. c \in Covers
    BY <1>4 DEF Acquire
  <2> QED
    BY <1>0, <1>t, <2>1, <2>2, <2>3
<1>5. ASSUME NEW c \in Clients, Enter(c) PROVE LocksHeld' /\ RoundsLeft'
  <2>1. /\ refresh # <<>> /\ c = Head(refresh) /\ c \in Pollers
        /\ UNCHANGED <<transaction, answer, rounds>>
        /\ pc[c] = "knocking"
    BY <1>5 DEF Enter
  <2>2. CASE session' = session
    <3>1. pc' = [pc EXCEPT ![c] = "done"] /\ refresh' = Tail(refresh)
      BY <1>t, <1>5, <2>2 DEF Enter
    <3>2. \A d \in Pollers : pc[d] \notin {"asking", "resting", "reading"}
      BY <2>1
    <3> QED
      BY <1>0, <1>t, <2>1, <2>2, <3>1, <3>2
  <2>3. CASE session' # session
    <3>1. /\ pc' = [pc EXCEPT ![c] = IF c = Poller THEN "reading" ELSE "asking"]
          /\ session' = Append(session, c) /\ refresh' = refresh
      BY <1>5, <2>3 DEF Enter
    <3>2. session # <<>> => session' # <<>> /\ Head(session') = Head(session)
      <4>1. session # <<>> => /\ Append(session, c) # <<>>
                              /\ Head(Append(session, c)) = Head(session)
        BY <1>t, AppendFacts
      <4> QED
        BY <3>1, <4>1
    <3> QED
      BY <1>0, <1>t, <2>1, <3>1, <3>2
  <2> QED
    BY <2>2, <2>3
<1>6. ASSUME NEW c \in Calls, ServeCommand(c) PROVE LocksHeld' /\ RoundsLeft'
  BY <1>6 DEF ServeCommand, Serving, lockVars
<1>7. ASSUME NEW c \in Clients, ServeRead(c) PROVE LocksHeld' /\ RoundsLeft'
  BY <1>7 DEF ServeRead, Serving, lockVars
<1>8. ASSUME NEW c \in Calls, CoverReturns(c) PROVE LocksHeld' /\ RoundsLeft'
  <2>1. /\ c \in Covers /\ pc[c] = "asking" /\ c = Head(transaction)
        /\ answer' = NoAnswer /\ refresh' = refresh
    BY <1>8 DEF CoverReturns, TransactionAfter, Answered
  <2>2. \A d \in Covers : d # c => pc[d] # "asking" /\ pc'[d] = pc[d] /\ rounds'[d] = rounds[d]
    BY <1>0, <1>t, <1>8, <2>1 DEF CoverReturns, TransactionAfter
  <2>3. \A d \in Pollers : pc'[d] = pc[d]
    BY <1>0, <1>t, <1>8, <2>1 DEF CoverReturns, TransactionAfter
  <2>4. pc'[c] # "asking" /\ (pc'[c] \in {"resting", "reading"} => rounds'[c] > 0)
    BY <1>0, <1>t, <1>8, <2>1, BoundsAssumption DEF CoverReturns, TransactionAfter
  <2> QED
    BY <1>0, <2>1, <2>2, <2>3, <2>4
<1>9. ASSUME NEW c \in Calls, Rest(c) PROVE LocksHeld' /\ RoundsLeft'
  <2>1. /\ pc[c] = "resting" /\ pc' = [pc EXCEPT ![c] = "reading"] /\ c \in Clients
        /\ session' = Append(session, c)
        /\ UNCHANGED <<transaction, refresh, answer, rounds>>
    BY <1>9 DEF Rest, Clients
  <2>2. session # <<>> => session' # <<>> /\ Head(session') = Head(session)
    BY <1>t, <2>1, AppendFacts
  <2> QED
    BY <1>0, <1>t, <2>1, <2>2
<1>10. ASSUME NEW c \in Calls, SettlementReturns(c) PROVE LocksHeld' /\ RoundsLeft'
  <2>1. /\ c \in Covers /\ pc[c] = "reading"
        /\ answer' = NoAnswer /\ UNCHANGED <<transaction, refresh>>
    BY <1>10 DEF SettlementReturns, Answered
  <2>2. \A d \in Clients : d # c => pc'[d] = pc[d]
    BY <1>t, <1>10, <2>1 DEF SettlementReturns
  <2>3. \A d \in Covers : d # c => rounds'[d] = rounds[d]
    BY <1>0, <1>t, <1>10, <2>1 DEF SettlementReturns
  <2>4. pc'[c] # "asking" /\ (pc'[c] \in {"resting", "reading"} => rounds'[c] > 0)
    BY <1>0, <1>t, <1>10, <2>1 DEF SettlementReturns, LastRound
  <2> QED
    BY <1>0, <2>1, <2>2, <2>3, <2>4
<1>11. ASSUME NEW c \in Calls, TestReturns(c) PROVE LocksHeld' /\ RoundsLeft'
  <2>1. /\ c \in Pollers /\ pc[c] = "asking" /\ c = Head(refresh)
        /\ answer' = NoAnswer /\ UNCHANGED <<transaction, rounds>>
    BY <1>11 DEF TestReturns, Answered
  <2>2. \A d \in Clients : d # c => pc'[d] = pc[d]
    BY <1>t, <1>11, <2>1 DEF TestReturns
  <2>3. \A d \in Pollers : d # c => pc[d] \notin {"asking", "resting", "reading"}
    BY <2>1
  <2>4. refresh' = refresh \/ pc'[c] = "done"
    BY <1>0, <1>t, <1>11, <2>1 DEF TestReturns, RefreshAfterTest
  <2> QED
    BY <1>0, <2>1, <2>2, <2>3, <2>4
<1>12. ASSUME NEW c \in Calls, TestEnds(c) PROVE LocksHeld' /\ RoundsLeft'
  <2>1. /\ c \in Pollers /\ pc[c] = "reading" /\ c = Head(refresh)
        /\ answer' = NoAnswer /\ UNCHANGED <<transaction, rounds>>
        /\ pc' = [pc EXCEPT ![c] = "done"] /\ c \in Clients
    BY <1>12 DEF TestEnds, Answered, Clients
  <2>2. \A d \in Pollers : d # c => pc[d] \notin {"asking", "resting", "reading"}
    BY <2>1
  <2> QED
    BY <1>0, <1>t, <2>1, <2>2
<1>13. CASE PollReturns
  <2>1. /\ pc[Poller] = "reading" /\ Poller = Head(refresh) /\ Poller \in Pollers
        /\ answer' = NoAnswer /\ UNCHANGED <<transaction, rounds>>
        /\ pc' = [pc EXCEPT ![Poller] = "idle"] /\ Poller \in Clients
    BY <1>13 DEF PollReturns, Answered, Clients
  <2>2. \A d \in Pollers : d # Poller => pc[d] \notin {"asking", "resting", "reading"}
    BY <2>1
  <2> QED
    BY <1>0, <1>t, <2>1, <2>2
<1>14. ASSUME NEW d \in Remote, RemoteControl(d) PROVE LocksHeld' /\ RoundsLeft'
  BY <1>1, <1>14 DEF RemoteControl, lockVars
<1>15. CASE Travels \/ Tells \/ GuardEnds \/ StatusAges \/ UNCHANGED vars
  BY <1>1, <1>15 DEF Travels, Tells, GuardEnds, StatusAges, vars, lockVars
<1> QED
  BY <1>2, <1>3, <1>4, <1>5, <1>6, <1>7, <1>8, <1>9, <1>10, <1>11, <1>12, <1>13, <1>14,
     <1>15 DEF Next, Steps

LEMMA Typed == SafetySpec => []TInv
<1>1. TInv /\ [Next]_vars => TInv'
  BY TypeStep, LocksStep DEF TInv
<1> QED
  BY <1>1, TypeInit, PTL DEF SafetySpec

\* Every variable keeps its type; in particular no settlement reads too often.
THEOREM TypeCorrect == SafetySpec => []TypeOK
BY Typed, PTL DEF TInv

\* Each of the three locks is held by the client whose exchange needs it.
THEOREM LocksAreHeld == SafetySpec => []LocksHeld
BY Typed, PTL DEF TInv


----------------------------------------------------------------------------
(***************************************************************************)
(* An acknowledged STOP is held                                            *)
(***************************************************************************)

\* Why it is: the gate stands still; the controller may still tell of the
\* motion, but only while the window is open; and an answer that tells of a
\* stop, which closes the window, shows that the controller has caught up.
StopInv ==
  /\ steady => ReadsRS /\ hub.movement = "none" /\ gate.motion = "none"
  /\ steady => stopGuard \/ told.motion = "none"
  /\ steady /\ answer.kind = "frame" => stopGuard \/ answer.frame.operating = "no"
  /\ steady /\ answer.frame.operating = "no" => told.motion = "none"
  /\ steady /\ answer # NoAnswer /\ pc[Head(session)] = "asking" =>
       AskedFor[Head(session)] = "STOP"

\* A frame applied while the STOP is to be held shows no motion, and closes the
\* window only when it tells of a stop.
LEMMA FrameHeld ==
  ASSUME TInv, StopInv, steady, StatusApplied
  PROVE  /\ hub'.movement = "none"
         /\ stopGuard' \/ told.motion = "none"
<1>1. answer.frame \in StatusFrame /\ answer.frame.operating \in Operating /\ hub \in State
  BY DEF TInv, TypeOK, Answers, StatusFrame
<1>2. CASE answer.kind # "frame"
  BY <1>2 DEF StatusApplied, shownVars, StopInv
<1>3. CASE answer.kind = "frame" /\ Stale(answer.frame)
  BY <1>3 DEF StatusApplied, StopInv
<1>4. CASE answer.kind = "frame" /\ ~Stale(answer.frame)
  <2>1. answer.frame.operating # "yes"
    BY <1>4 DEF Stale, StopInv
  <2>2. hub' = ApplyNative(hub, answer.frame)
        /\ stopGuard' = (stopGuard /\ ~(ReadsRS /\ answer.frame.operating = "no"))
    BY <1>4 DEF StatusApplied
  <2>3. hub' \in State /\ hub'.movement = "none"
    <3>1. hub' \in State
      BY <1>1, <2>2, ApplyNativeOK
    <3>2. ApplyNative(hub, answer.frame).movement = "none"
      <4> DEFINE t == [hub EXCEPT !.pedAssumed = @ /\ answer.frame.operating # "no"]
                 u == IF answer.frame.position # NoPosition
                      THEN ApplyPosition(t, answer.frame.position, FALSE) ELSE t
      <4>1. t \in State
        BY <1>1 DEF State
      <4>2. u \in State
        BY <1>1, <4>1, ApplyPositionOK DEF StatusFrame
      <4> HIDE DEF t, u
      <4>3. ApplyNative(hub, answer.frame) =
              [u EXCEPT !.operating = answer.frame.operating, !.movement = "none"]
        BY <2>1 DEF ApplyNative, t, u
      <4> QED
        BY <4>2, <4>3 DEF State
    <3> QED
      BY <2>2, <3>1, <3>2
  <2>4. stopGuard' \/ told.motion = "none"
    BY <2>2 DEF StopInv
  <2> QED
    BY <2>3, <2>4
<1> QED
  BY <1>2, <1>3, <1>4

LEMMA StopInit == Init => StopInv
BY DEF Init, StopInv

LEMMA StopStep == TInv /\ TInv' /\ StopInv /\ [Next]_vars => StopInv'
<1> SUFFICES ASSUME TInv, TInv', StopInv, [Next]_vars, steady' PROVE StopInv'
  BY DEF StopInv
<1> USE DEF StopInv
<1>t. /\ pc \in [Clients -> Stages] /\ session \in Seq(Clients)
      /\ gate \in Gates /\ told \in Gates /\ hub \in State /\ answer \in Answers
      /\ stopGuard \in BOOLEAN /\ steady \in BOOLEAN
      /\ (answer # NoAnswer =>
            session # <<>> /\ pc[Head(session)] \in {"asking", "reading"})
  BY DEF TInv, TypeOK, LocksHeld
<1>n. NoAnswer.kind = "none" /\ NoAnswer.frame.operating = "unknown"
  BY DEF NoAnswer, Outcome, Malformed
<1>1. ASSUME NEW d \in Remote, RemoteControl(d) PROVE FALSE
  BY <1>1 DEF RemoteControl
<1>2. CASE Travels
  BY <1>2, <1>t DEF Travels, Advanced, historyVars
<1>3. CASE Tells
  BY <1>3 DEF Tells, lockVars, shownVars, historyVars
<1>4. ASSUME NEW c \in Calls, AskCover(c) PROVE StopInv'
  <2>1. steady /\ ~Supersedes(c) /\ stopGuard' = stopGuard
    BY <1>4, <1>t DEF AskCover
  <2>2. UNCHANGED <<gate, told, hub, answer, session>>
    BY <1>4 DEF AskCover, gateVars
  <2>3. answer # NoAnswer => pc'[Head(session)] = pc[Head(session)]
    BY <1>4, <1>t DEF AskCover
  <2> QED
    BY <2>1, <2>2, <2>3
<1>5. ASSUME NEW c \in Clients, Knock(c) PROVE StopInv'
  <2>1. UNCHANGED <<gate, told, hub, answer, session, stopGuard, steady>>
    BY <1>5 DEF Knock, gateVars, shownVars, historyVars
  <2>2. answer # NoAnswer => pc'[Head(session)] = pc[Head(session)]
    BY <1>5, <1>t DEF Knock
  <2> QED
    BY <2>1, <2>2
<1>6. ASSUME NEW c \in Calls, Acquire(c) PROVE StopInv'
  <2>1. UNCHANGED <<gate, told, hub, answer, stopGuard, steady>>
    BY <1>6 DEF Acquire, gateVars, historyVars
  <2>2. answer # NoAnswer => /\ Head(session') = Head(session)
                             /\ pc'[Head(session)] = pc[Head(session)]
    BY <1>6, <1>t, AppendFacts DEF Acquire, Clients
  <2> QED
    BY <2>1, <2>2
<1>7. ASSUME NEW c \in Clients, Enter(c) PROVE StopInv'
  <2>1. UNCHANGED <<gate, told, hub, answer, stopGuard, steady>>
    BY <1>7 DEF Enter, gateVars, shownVars, historyVars
  <2>2. session' \in {session, Append(session, c)} /\ pc[c] = "knocking"
        /\ \A d \in Clients : d # c => pc'[d] = pc[d]
    BY <1>7, <1>t DEF Enter
  <2>3. answer # NoAnswer => /\ Head(session') = Head(session)
                             /\ pc'[Head(session)] = pc[Head(session)]
    BY <1>7, <1>t, <2>2, AppendFacts, TailFacts
  <2> QED
    BY <2>1, <2>3
<1>8. ASSUME NEW c \in Calls, ServeCommand(c) PROVE StopInv'
  <2>1. steady /\ AskedFor[c] = "STOP" /\ c = Head(session)
    BY <1>8, <1>t DEF ServeCommand, Serving
  <2>2. UNCHANGED <<told, hub, session, pc, stopGuard>>
    BY <1>8 DEF ServeCommand, lockVars, shownVars
  <2>3. answer'.kind # "frame" /\ answer'.frame.operating = "unknown"
    BY <1>8 DEF ServeCommand, Outcome, Malformed
  <2>4. gate'.motion = "none"
    BY <1>8, <1>t, <2>1 DEF ServeCommand, Steered, MotionOf, Gates
  <2> QED
    BY <2>1, <2>2, <2>3, <2>4
<1>9. ASSUME NEW c \in Clients, ServeRead(c) PROVE StopInv'
  <2>1. UNCHANGED <<gate, told, hub, session, pc, stopGuard, steady>>
    BY <1>9 DEF ServeRead, gateVars, lockVars, shownVars
  <2>2. pc[Head(session)] = "reading"
    BY <1>9 DEF ServeRead, Serving
  <2>3. \/ answer' = [kind |-> "frame", frame |-> Snapshot(told)]
        \/ answer' = Outcome("nothing")
    BY <1>9 DEF ServeRead
  <2>4. CASE answer' = [kind |-> "frame", frame |-> Snapshot(told)]
    BY <1>t, <2>1, <2>2, <2>4, SnapshotOperating
  <2>5. CASE answer' = Outcome("nothing")
    BY <2>1, <2>2, <2>5 DEF Outcome, Malformed
  <2> QED
    BY <2>3, <2>4, <2>5
<1>10. ASSUME NEW c \in Calls, CoverReturns(c) PROVE StopInv'
  <2>1. answer' = NoAnswer /\ UNCHANGED <<gate, told>> /\ c = Head(session) /\ pc[c] = "asking"
        /\ answer # NoAnswer
    BY <1>10 DEF CoverReturns, TransactionAfter, Answered, gateVars
  <2>2. CASE Verdict(c) = "acked" /\ Settles(c)
    <3>1. stopGuard' /\ gate.motion = "none" /\ ReadsRS /\ hub' = AfterAck(hub, "STOP")
      BY <1>10, <2>2 DEF CoverReturns, TransactionAfter, Settles, ReadsRS
    <3>2. hub'.movement = "none"
      BY <1>t, <3>1 DEF AfterAck, MotionOf, State
    <3> QED
      BY <1>n, <2>1, <3>1, <3>2
  <2>3. CASE ~(Verdict(c) = "acked" /\ Settles(c))
    <3>1. UNCHANGED <<stopGuard, steady>> /\ AskedFor[c] = "STOP"
      BY <1>10, <2>1, <2>3 DEF CoverReturns, TransactionAfter
    <3>2. Verdict(c) # "acked"
      BY <2>3, <3>1 DEF Settles, ReadsRS
    <3>3. hub'.movement = "none"
      BY <1>10, <1>t, <3>1, <3>2 DEF CoverReturns, TransactionAfter, AfterMotionProof, State
    <3> QED
      BY <1>n, <2>1, <3>1, <3>3
  <2> QED
    BY <2>2, <2>3
<1>11. ASSUME NEW c \in Calls, Rest(c) PROVE StopInv'
  <2>1. UNCHANGED <<gate, told, hub, answer, stopGuard, steady>>
    BY <1>11 DEF Rest, gateVars, shownVars, historyVars
  <2>2. answer # NoAnswer => /\ Head(session') = Head(session)
                             /\ pc'[Head(session)] = pc[Head(session)]
    BY <1>11, <1>t, AppendFacts DEF Rest, Clients
  <2> QED
    BY <2>1, <2>2
<1>12. ASSUME NEW c \in Calls, SettlementReturns(c) PROVE StopInv'
  <2>1. answer' = NoAnswer /\ UNCHANGED <<gate, told, steady>>
    BY <1>12 DEF SettlementReturns, gateVars, historyVars
  <2>2. hub'.movement = "none" /\ (stopGuard' \/ told.motion = "none")
    BY <1>12, <2>1, FrameHeld DEF SettlementReturns, shownVars
  <2> QED
    BY <1>n, <2>1, <2>2
<1>13. ASSUME NEW c \in Calls, TestReturns(c) PROVE StopInv'
  <2>1. answer' = NoAnswer /\ UNCHANGED <<gate, told>>
    BY <1>13 DEF TestReturns, gateVars
  <2>2. CASE AskedFor[c] = "STOP" /\ answer.kind = "ack"
    <3>1. stopGuard' /\ ReadsRS /\ gate.motion = "none"
          /\ hub' = [hub EXCEPT !.operating = "no", !.movement = "none"]
      BY <1>13, <2>2 DEF TestReturns
    <3>2. hub'.movement = "none"
      BY <1>t, <3>1 DEF State
    <3> QED
      BY <1>n, <2>1, <3>1, <3>2
  <2>3. CASE ~(AskedFor[c] = "STOP" /\ answer.kind = "ack")
    <3>1. UNCHANGED <<hub, stopGuard, steady>>
      BY <1>13, <2>3 DEF TestReturns
    <3> QED
      BY <1>n, <2>1, <3>1
  <2> QED
    BY <2>2, <2>3
<1>14. ASSUME NEW c \in Calls, TestEnds(c) PROVE StopInv'
  <2>1. answer' = NoAnswer /\ UNCHANGED <<gate, told, steady>>
    BY <1>14 DEF TestEnds, gateVars, historyVars
  <2>2. hub'.movement = "none" /\ (stopGuard' \/ told.motion = "none")
    BY <1>14, <2>1, FrameHeld DEF TestEnds
  <2> QED
    BY <1>n, <2>1, <2>2
<1>15. CASE PollReturns
  <2>1. answer' = NoAnswer /\ UNCHANGED <<gate, told, steady>>
    BY <1>15 DEF PollReturns, gateVars, historyVars
  <2>2. hub'.movement = "none" /\ (stopGuard' \/ told.motion = "none")
    BY <1>15, <2>1, FrameHeld DEF PollReturns
  <2> QED
    BY <1>n, <2>1, <2>2
<1>16. ~GuardEnds
  BY DEF GuardEnds
<1>17. CASE StatusAges \/ UNCHANGED vars
  BY <1>17 DEF StatusAges, vars, gateVars, lockVars, shownVars, historyVars
<1> QED
  BY <1>1, <1>2, <1>3, <1>4, <1>5, <1>6, <1>7, <1>8, <1>9, <1>10, <1>11, <1>12, <1>13,
     <1>14, <1>15, <1>16, <1>17 DEF Next, Steps

\* An acknowledged STOP is not shown as moving again before its settlement
\* window ends, for any number of calls, tests, polls and settlement reads.
THEOREM StopIsHeld == SafetySpec => []StopHeld
<1>1. StopInv => StopHeld
  BY DEF StopInv, StopHeld
<1> QED
  BY <1>1, Typed, StopInit, StopStep, PTL DEF SafetySpec

===============================================================================
