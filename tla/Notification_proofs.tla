------------------------ MODULE Notification_proofs ------------------------
(***************************************************************************)
(* Proofs about the two components whose threads tell the client something *)
(* after they let go of the lock under which they found it out: the        *)
(* hotplugs (HotplugEvents) and the HDCP level (HdcpController).           *)
(*                                                                         *)
(* Hotplugs: for every display the invariant relates what the client was   *)
(* told, what is queued and what each flusher still has to send, unless    *)
(* two flushers have crossed.  It holds for any displays, threads and      *)
(* length of the run.                                                      *)
(*                                                                         *)
(* HDCP: its invariants follow from two facts: where a negotiation stands  *)
(* (in each state of the controller, what was tried, what the kernel was   *)
(* asked for last and whether was_retry_ tells the truth about it), and    *)
(* what may still be told to the client.                                   *)
(***************************************************************************)
EXTENDS HotplugEvents, HdcpController, WellFoundedInduction, TLAPS

-----------------------------------------------------------------------------
(* Natural numbers: least elements and induction, for sets of them.        *)

Smaller == {p \in Nat \X Nat : p[1] < p[2]}

\* A set of natural numbers has a least one.
LEMMA LeastNatural ==
  ASSUME NEW S \in SUBSET Nat, S # {}
  PROVE  \E n \in S : \A m \in S : n <= m
<1>1. IsWellFoundedOn(Smaller, Nat)
  <2>1. OpToRel(<, Nat) = Smaller
    BY DEF OpToRel, Smaller
  <2> QED BY <2>1, NatLessThanWellFounded
<1>2. PICK n \in S : \A m \in S : ~ (<<m, n>> \in Smaller)
  BY <1>1, WFMin
<1>3. ASSUME NEW m \in S PROVE n <= m
  <2>1. n \in Nat /\ m \in Nat
    OBVIOUS
  <2>2. m < n => <<m, n>> \in Smaller
    BY <2>1 DEF Smaller
  <2> QED BY <1>2, <2>1, <2>2
<1> QED BY <1>3

\* Induction, over a set.
LEMMA InductionOverSet ==
  ASSUME NEW S, 0 \in S, \A n \in Nat : n \in S => n + 1 \in S
  PROVE  Nat \subseteq S
<1> DEFINE R == Nat \ S
<1> SUFFICES ASSUME R # {} PROVE FALSE
  OBVIOUS
<1>1. PICK n \in R : \A m \in R : n <= m
  BY LeastNatural
<1>2. n \in Nat /\ n # 0 /\ n - 1 \in Nat /\ n - 1 \notin R
  <2>1. n \in Nat /\ n # 0
    OBVIOUS
  <2>2. n - 1 \in Nat /\ ~(n <= n - 1)
    BY <2>1
  <2> QED BY <1>1, <2>1, <2>2
<1>3. (n - 1) + 1 = n
  BY <1>2
<1> QED BY <1>2, <1>3

-----------------------------------------------------------------------------
(* What Among does to a sequence of events.                                *)

\* g[i] holds the events of S among the first i of v, for i up to n.
KeptUpTo(v, S, g, n) ==
  /\ g = [i \in 0 .. n |-> g[i]] /\ g[0] = <<>>
  /\ \A i \in 1 .. n : g[i] = IF v[i] \in S THEN Append(g[i - 1], v[i]) ELSE g[i - 1]

\* There are such sequences up to every n.
LEMMA KeptExist ==
  ASSUME NEW v, NEW S
  PROVE  \A n \in Nat : \E g : KeptUpTo(v, S, g, n)
<1> DEFINE K == {n \in Nat : \E g : KeptUpTo(v, S, g, n)}
<1>1. 0 \in K
  <2>1. KeptUpTo(v, S, [i \in 0 .. 0 |-> <<>>], 0)
    BY DEF KeptUpTo
  <2> QED BY <2>1
<1>2. ASSUME NEW n \in Nat, n \in K PROVE n + 1 \in K
  <2>1. PICK g : KeptUpTo(v, S, g, n)
    BY <1>2
  <2> DEFINE next == IF v[n + 1] \in S THEN Append(g[n], v[n + 1]) ELSE g[n]
             h == [i \in 0 .. n + 1 |-> IF i = n + 1 THEN next ELSE g[i]]
  <2>2. KeptUpTo(v, S, h, n + 1)
    <3> HIDE DEF next
    <3>1. h = [i \in 0 .. n + 1 |-> h[i]] /\ h[0] = <<>>
      BY <2>1 DEF KeptUpTo
    <3>2. ASSUME NEW i \in 1 .. n + 1
          PROVE  h[i] = IF v[i] \in S THEN Append(h[i - 1], v[i]) ELSE h[i - 1]
      <4>1. i \in 0 .. n + 1 /\ i - 1 \in 0 .. n + 1 /\ i - 1 # n + 1 /\ h[i - 1] = g[i - 1]
        OBVIOUS
      <4>2. CASE i = n + 1
        <5>1. h[i] = next /\ i - 1 = n
          BY <4>1, <4>2
        <5> HIDE DEF h
        <5> QED BY <4>1, <4>2, <5>1 DEF next
      <4>3. CASE i # n + 1
        <5>1. h[i] = g[i] /\ i \in 1 .. n
          BY <4>1, <4>3
        <5>2. g[i] = IF v[i] \in S THEN Append(g[i - 1], v[i]) ELSE g[i - 1]
          BY <2>1, <5>1 DEF KeptUpTo
        <5> HIDE DEF h
        <5> QED BY <4>1, <5>1, <5>2
      <4> QED BY <4>2, <4>3
    <3> QED BY <3>1, <3>2 DEF KeptUpTo
  <2> QED BY <2>2
<1> HIDE DEF K
<1>3. Nat \subseteq K
  BY <1>1, <1>2, InductionOverSet
<1> QED BY <1>3 DEF K

\* They agree where they overlap.
LEMMA KeptAgree ==
  ASSUME NEW v, NEW S, NEW g, NEW h, NEW n \in Nat, NEW m \in Nat, m <= n,
         KeptUpTo(v, S, g, n), KeptUpTo(v, S, h, m)
  PROVE  h[m] = g[m]
<1> DEFINE K == {i \in Nat : i <= m => h[i] = g[i]}
<1>1. 0 \in K
  BY DEF KeptUpTo
<1>2. ASSUME NEW i \in Nat, i \in K PROVE i + 1 \in K
  <2> SUFFICES ASSUME i + 1 <= m PROVE h[i + 1] = g[i + 1]
    OBVIOUS
  <2>1. h[i] = g[i]
    BY <1>2
  <2>2. i + 1 \in 1 .. m /\ i + 1 \in 1 .. n /\ (i + 1) - 1 = i
    OBVIOUS
  <2>3. /\ h[i + 1] = IF v[i + 1] \in S THEN Append(h[(i + 1) - 1], v[i + 1]) ELSE h[(i + 1) - 1]
        /\ g[i + 1] = IF v[i + 1] \in S THEN Append(g[(i + 1) - 1], v[i + 1]) ELSE g[(i + 1) - 1]
    BY <2>2 DEF KeptUpTo
  <2> QED BY <2>1, <2>2, <2>3
<1> HIDE DEF K
<1>3. Nat \subseteq K
  BY <1>1, <1>2, InductionOverSet
<1> QED BY <1>3 DEF K

\* So the recursive function there is in Among exists, and takes its steps.
LEMMA AmongSteps ==
  ASSUME NEW v, NEW S
  PROVE  \E f : /\ f[0] = <<>>
                /\ \A n \in Nat \ {0} :
                     f[n] = IF v[n] \in S THEN Append(f[n - 1], v[n]) ELSE f[n - 1]
                /\ Among(v, S) = f[Len(v)]
<1> DEFINE G(n) == CHOOSE g : KeptUpTo(v, S, g, n)
           e == [n \in Nat |-> G(n)[n]]
           Step(f, n) == IF n = 0 THEN <<>>
                         ELSE IF v[n] \in S THEN Append(f[n - 1], v[n]) ELSE f[n - 1]
<1>1. ASSUME NEW n \in Nat PROVE KeptUpTo(v, S, G(n), n)
  BY KeptExist
<1> HIDE DEF G
<1>2. ASSUME NEW n \in Nat PROVE e[n] = Step(e, n)
  <2>1. CASE n = 0
    BY <2>1, <1>1 DEF KeptUpTo
  <2>2. CASE n # 0
    <3>1. n - 1 \in Nat /\ n \in 1 .. n /\ n - 1 <= n
      BY <2>2
    <3>2. G(n)[n] = IF v[n] \in S THEN Append(G(n)[n - 1], v[n]) ELSE G(n)[n - 1]
      BY <1>1, <3>1 DEF KeptUpTo
    <3>3. G(n - 1)[n - 1] = G(n)[n - 1]
      BY <1>1, <3>1, KeptAgree
    <3>4. e[n] = G(n)[n] /\ e[n - 1] = G(n - 1)[n - 1]
      BY <3>1
    <3> HIDE DEF e
    <3> QED BY <2>2, <3>2, <3>3, <3>4
  <2> QED BY <2>1, <2>2
<1>3. e = [n \in Nat |-> Step(e, n)]
  <2>1. e = [n \in Nat |-> e[n]]
    OBVIOUS
  <2> HIDE DEF e
  <2> QED BY <1>2, <2>1
<1> DEFINE f == CHOOSE kept : kept = [n \in Nat |-> Step(kept, n)]
<1>4. f = [n \in Nat |-> Step(f, n)]
  <2> HIDE DEF e
  <2>1. \E kept : kept = [n \in Nat |-> Step(kept, n)]
    BY <1>3
  <2> QED BY <2>1
<1>5. Among(v, S) = f[Len(v)]
  BY DEF Among
<1> HIDE DEF f
<1>6. \A n \in Nat : f[n] = Step(f, n)
  BY <1>4
<1>7. f[0] = <<>>
  BY <1>6
<1>8. ASSUME NEW n \in Nat \ {0}
      PROVE  f[n] = IF v[n] \in S THEN Append(f[n - 1], v[n]) ELSE f[n - 1]
  BY <1>6, <1>8
<1> QED BY <1>5, <1>7, <1>8

\* What is kept: all events of the set, and no others, each after those of
\* the set that it was after.
Filtered(v, S, F) ==
  /\ \A i \in 1 .. Len(v) : v[i] \in S => \E j \in 1 .. Len(F) : F[j] = v[i]
  /\ \A j \in 1 .. Len(F) : \E i \in 1 .. Len(v) :
       /\ F[j] = v[i] /\ v[i] \in S
       /\ \A k \in 1 .. (i - 1) : v[k] \in S => \E l \in 1 .. (j - 1) : F[l] = v[k]

\* That is what Among does.
LEMMA AmongIs ==
  ASSUME NEW T, NEW v \in Seq(T), NEW S, NEW F, F = Among(v, S)
  PROVE  F \in Seq(T) /\ Filtered(v, S, F)
<1>1. PICK f : /\ f[0] = <<>>
               /\ \A n \in Nat \ {0} :
                    f[n] = IF v[n] \in S THEN Append(f[n - 1], v[n]) ELSE f[n - 1]
               /\ Among(v, S) = f[Len(v)]
  BY AmongSteps
<1> DEFINE Kept(X, n) ==
             /\ X \in Seq(T)
             /\ \A i \in 1 .. n : v[i] \in S => \E j \in 1 .. Len(X) : X[j] = v[i]
             /\ \A j \in 1 .. Len(X) : \E i \in 1 .. n :
                  /\ X[j] = v[i] /\ v[i] \in S
                  /\ \A k \in 1 .. (i - 1) : v[k] \in S => \E l \in 1 .. (j - 1) : X[l] = v[k]
           K == {n \in Nat : n <= Len(v) => Kept(f[n], n)}
<1>2. Len(v) \in Nat /\ \A i \in 1 .. Len(v) : v[i] \in T
  OBVIOUS
<1>3. 0 \in K
  <2>1. f[0] \in Seq(T) /\ Len(f[0]) = 0
    BY <1>1
  <2> QED BY <2>1
<1>4. ASSUME NEW n \in Nat, n \in K PROVE n + 1 \in K
  <2> SUFFICES ASSUME n + 1 <= Len(v) PROVE Kept(f[n + 1], n + 1)
    OBVIOUS
  <2> DEFINE P == f[n]
             e == v[n + 1]
  <2>1. Kept(P, n)
    BY <1>2, <1>4
  <2>2. f[n + 1] = IF e \in S THEN Append(P, e) ELSE P
    <3>1. n + 1 \in Nat \ {0} /\ (n + 1) - 1 = n
      OBVIOUS
    <3> QED BY <1>1, <3>1
  <2>3. e \in T
    BY <1>2
  <2>4. P \in Seq(T) /\ Len(P) \in Nat
    BY <2>1
  <2> HIDE DEF P
  <2>5. CASE e \notin S
    <3>1. f[n + 1] = P
      BY <2>2, <2>5
    <3>2. ASSUME NEW i \in 1 .. n + 1, v[i] \in S PROVE \E j \in 1 .. Len(P) : P[j] = v[i]
      <4>1. i \in 1 .. n
        BY <2>5, <3>2
      <4> QED BY <2>1, <3>2, <4>1
    <3>3. ASSUME NEW j \in 1 .. Len(P)
          PROVE  \E i \in 1 .. n + 1 :
                   /\ P[j] = v[i] /\ v[i] \in S
                   /\ \A k \in 1 .. (i - 1) : v[k] \in S => \E l \in 1 .. (j - 1) : P[l] = v[k]
      <4>1. PICK i \in 1 .. n :
                   /\ P[j] = v[i] /\ v[i] \in S
                   /\ \A k \in 1 .. (i - 1) : v[k] \in S => \E l \in 1 .. (j - 1) : P[l] = v[k]
        BY <2>1
      <4>2. i \in 1 .. n + 1
        OBVIOUS
      <4> QED BY <4>1, <4>2
    <3>4. Kept(P, n + 1)
      BY <2>4, <3>2, <3>3
    <3> HIDE DEF Kept
    <3> QED BY <3>1, <3>4
  <2>6. CASE e \in S
    <3> DEFINE H == Append(P, e)
    <3>1. /\ H \in Seq(T) /\ Len(H) = Len(P) + 1 /\ H[Len(P) + 1] = e
          /\ \A j \in 1 .. Len(P) : H[j] = P[j]
      BY <2>3, <2>4
    <3>2. f[n + 1] = H
      BY <2>2, <2>6
    <3> HIDE DEF H
    <3>3. ASSUME NEW i \in 1 .. n + 1, v[i] \in S PROVE \E j \in 1 .. Len(H) : H[j] = v[i]
      <4>1. CASE i = n + 1
        <5>1. Len(P) + 1 \in 1 .. Len(H)
          BY <2>4, <3>1
        <5> QED BY <3>1, <4>1, <5>1
      <4>2. CASE i # n + 1
        <5>1. i \in 1 .. n
          BY <4>2
        <5>2. PICK j \in 1 .. Len(P) : P[j] = v[i]
          BY <2>1, <3>3, <5>1
        <5>3. j \in 1 .. Len(H)
          BY <2>4, <3>1
        <5> QED BY <3>1, <5>2, <5>3
      <4> QED BY <4>1, <4>2
    <3>4. ASSUME NEW j \in 1 .. Len(H)
          PROVE  \E i \in 1 .. n + 1 :
                   /\ H[j] = v[i] /\ v[i] \in S
                   /\ \A k \in 1 .. (i - 1) : v[k] \in S => \E l \in 1 .. (j - 1) : H[l] = v[k]
      <4>1. CASE j = Len(P) + 1
        <5>1. H[j] = v[n + 1] /\ n + 1 \in 1 .. n + 1 /\ v[n + 1] \in S
          BY <2>6, <3>1, <4>1
        <5>2. ASSUME NEW k \in 1 .. ((n + 1) - 1), v[k] \in S
              PROVE  \E l \in 1 .. (j - 1) : H[l] = v[k]
          <6>1. k \in 1 .. n /\ j - 1 = Len(P)
            BY <2>4, <4>1
          <6>2. PICK l \in 1 .. Len(P) : P[l] = v[k]
            BY <2>1, <5>2, <6>1
          <6> QED BY <3>1, <6>1, <6>2
        <5> QED BY <5>1, <5>2
      <4>2. CASE j # Len(P) + 1
        <5>1. j \in 1 .. Len(P)
          BY <2>4, <3>1, <4>2
        <5>2. PICK i \in 1 .. n :
                   /\ P[j] = v[i] /\ v[i] \in S
                   /\ \A k \in 1 .. (i - 1) : v[k] \in S => \E l \in 1 .. (j - 1) : P[l] = v[k]
          BY <2>1, <5>1
        <5>3. i \in 1 .. n + 1 /\ H[j] = v[i]
          BY <3>1, <5>1, <5>2
        <5>4. ASSUME NEW k \in 1 .. (i - 1), v[k] \in S
              PROVE  \E l \in 1 .. (j - 1) : H[l] = v[k]
          <6>1. PICK l \in 1 .. (j - 1) : P[l] = v[k]
            BY <5>2, <5>4
          <6>2. l \in 1 .. Len(P)
            BY <2>4, <5>1
          <6> QED BY <3>1, <6>1, <6>2
        <5> QED BY <5>2, <5>3, <5>4
      <4> QED BY <4>1, <4>2
    <3>5. Kept(H, n + 1)
      BY <3>1, <3>3, <3>4
    <3> HIDE DEF Kept
    <3> QED BY <3>2, <3>5
  <2> QED BY <2>5, <2>6
<1> HIDE DEF K
<1>5. Nat \subseteq K
  BY <1>3, <1>4, InductionOverSet
<1>6. Kept(f[Len(v)], Len(v))
  <2>1. Len(v) \in K /\ Len(v) <= Len(v)
    BY <1>2, <1>5
  <2> HIDE DEF Kept
  <2> QED BY <2>1 DEF K
<1>7. F = f[Len(v)]
  BY <1>1
<1> HIDE DEF Kept
<1>8. Kept(F, Len(v))
  BY <1>6, <1>7
<1> QED BY <1>8 DEF Kept, Filtered

-----------------------------------------------------------------------------
(* HotplugEvents: the inductive invariant.                                 *)

\* An event is in a sequence of events.
In(events, h, s) == \E i \in 1 .. Len(events) : events[i] = [handle |-> h, status |-> s]

Has(events, h) == \E s \in Statuses : In(events, h, s)

\* A link error is in it only after the connection it is about.
Led(events, h) ==
  \A k \in 1 .. Len(events) :
    events[k] = [handle |-> h, status |-> "LinkTrainingFailed"] =>
      \E i \in 1 .. (k - 1) : events[i] = [handle |-> h, status |-> "Connected"]

\* The client is being told of the event.
Sends(t, h, s) == pc[t] = "sending" /\ Head(batch[t]) = [handle |-> h, status |-> s]

\* A batch is there while it is sent, to a client that listens; a thread that
\* holds the main lock sends none.
StepInv ==
  /\ lock \in Threads => pc[lock] = "locked"
  /\ \A t \in Flushers : /\ pc[t] \notin {"send", "sending"} => batch[t] = <<>>
                         /\ pc[t] = "sending" => batch[t] # <<>>
  /\ ~callback => /\ \A t \in Flushers : pc[t] \notin {"send", "sending"}
                  /\ connected = {} /\ \A h \in Handles : told[h] = "none"

\* Events of a display are in two batches only when flushers have crossed.
OneBatch ==
  \A h \in Handles \ crossed : \A t, u \in Flushers :
    Has(batch[t], h) /\ Has(batch[u], h) => t = u

\* What the client was told or is going to be told of a display ...
NoneInv(h) ==
  display[h] = "none" =>
    /\ told[h] = "none" /\ h \notin connected
    /\ \A s \in Statuses \ {"IncompatibleCable"} :
         ~In(queue, h, s) /\ \A t \in Flushers : ~In(batch[t], h, s)

BoundInv(h) ==
  display[h] = "bound" =>
    /\ told[h] # "Disconnected"
    /\ ~In(queue, h, "Disconnected") /\ \A t \in Flushers : ~In(batch[t], h, "Disconnected")
    /\ \/ told[h] = "Connected" \/ In(queue, h, "Connected")
       \/ \E t \in Flushers : In(batch[t], h, "Connected")

GoneInv(h) ==
  display[h] = "gone" =>
    /\ ~In(queue, h, "Connected") /\ ~In(queue, h, "LinkTrainingFailed")
    /\ \/ told[h] = "Disconnected" \/ In(queue, h, "Disconnected")
       \/ \E t \in Flushers : In(batch[t], h, "Disconnected")
    /\ \A t \in Flushers :
         In(batch[t], h, "Connected") \/ In(batch[t], h, "LinkTrainingFailed") =>
           In(queue, h, "Disconnected") /\ ~In(batch[t], h, "Disconnected")

\* ... which is what DrmHwcThree keeps of it, but for the event under way.
SetInv(h) ==
  /\ \A t \in Flushers : /\ Sends(t, h, "Connected") => told[h] = "Connected"
                         /\ Sends(t, h, "Disconnected") => h \notin connected
  /\ (\A t \in Flushers : ~Sends(t, h, "Connected") /\ ~Sends(t, h, "Disconnected")) =>
       (h \in connected <=> told[h] = "Connected")

\* An error follows its connection.
ErrorInv(h) ==
  /\ \/ told[h] = "Connected" \/ Led(queue, h)
     \/ \E t \in Flushers : In(batch[t], h, "Connected")
  /\ \A t \in Flushers : told[h] = "Connected" \/ Led(batch[t], h)

HandleInv(h) == NoneInv(h) /\ BoundInv(h) /\ GoneInv(h) /\ SetInv(h) /\ ErrorInv(h)

IInv == TypeOK /\ StepInv /\ OneBatch /\ \A h \in Handles \ crossed : HandleInv(h)

-----------------------------------------------------------------------------
(* Queues and batches, as far as it matters which events are in them.      *)

Ev(h, s) == [handle |-> h, status |-> s]

\* An event is its display and its status.
LEMMA EventIs ==
  /\ \A h \in Handles, s \in Statuses : Ev(h, s) \in Event /\ Ev(h, s).handle = h
                                        /\ Ev(h, s).status = s
  /\ \A e \in Event : e = Ev(e.handle, e.status) /\ e.handle \in Handles /\ e.status \in Statuses
  /\ \A g, h, r, s : Ev(g, r) = Ev(h, s) <=> g = h /\ r = s
<1>1. \A g, h, r, s : Ev(g, r) = Ev(h, s) <=> g = h /\ r = s
  <2>1. \A g, r : Ev(g, r).handle = g /\ Ev(g, r).status = r
    BY DEF Ev
  <2> QED BY <2>1
<1> QED BY <1>1 DEF Event, Ev

\* The statuses by name.
LEMMA StatusesAre ==
  /\ "Connected" \in Statuses /\ "Disconnected" \in Statuses
  /\ "LinkTrainingFailed" \in Statuses /\ "IncompatibleCable" \in Statuses
  /\ \A s \in Statuses : s \in {"Connected", "Disconnected", "LinkTrainingFailed",
                               "IncompatibleCable"}
BY DEF Statuses, Errors

\* Events of a display are those in the queue of its own events.
LEMMA OfIs ==
  ASSUME NEW events \in Seq(Event), NEW h \in Handles
  PROVE  Of(events, h) # <<>> <=> Has(events, h)
<1> DEFINE S == [handle : {h}, status : Statuses]
           F == Among(events, S)
<1>0. F \in Seq(Event) /\ Filtered(events, S, F)
  BY AmongIs
<1>1. /\ F \in Seq(Event)
      /\ \A i \in 1 .. Len(events) : events[i] \in S => \E j \in 1 .. Len(F) : F[j] = events[i]
      /\ \A j \in 1 .. Len(F) : \E i \in 1 .. Len(events) : F[j] = events[i] /\ events[i] \in S
  <2> HIDE DEF F, S
  <2> QED BY <1>0 DEF Filtered
<1>2. \A s \in Statuses : [handle |-> h, status |-> s] \in S
  OBVIOUS
<1>3. \A e \in S : e = [handle |-> h, status |-> e.status] /\ e.status \in Statuses
  OBVIOUS
<1>4. F # <<>> <=> 1 \in 1 .. Len(F)
  BY <1>1
<1>5. Of(events, h) = F
  BY DEF Of
<1> HIDE DEF F, S
<1>6. ASSUME Has(events, h) PROVE F # <<>>
  <2>1. PICK s \in Statuses, i \in 1 .. Len(events) : events[i] = [handle |-> h, status |-> s]
    BY <1>6 DEF Has, In
  <2>2. PICK j \in 1 .. Len(F) : F[j] = events[i]
    BY <1>1, <1>2, <2>1
  <2> QED BY <1>1, <2>2
<1>7. ASSUME F # <<>> PROVE Has(events, h)
  <2>1. PICK i \in 1 .. Len(events) : events[i] \in S
    BY <1>1, <1>4, <1>7
  <2> QED BY <1>3, <2>1 DEF Has, In
<1> QED BY <1>5, <1>6, <1>7

\* An event that is not pointless goes to the end of what is kept of a queue, or
\* is there already; errors stay behind their connections.
Appended(kept, h, s, new) ==
  /\ \A g, r : In(new, g, r) <=> In(kept, g, r) \/ (g = h /\ r = s)
  /\ \A g : Led(kept, g) /\ (g = h /\ s = "LinkTrainingFailed" => In(kept, h, "Connected"))
              => Led(new, g)

\* That is what Add does last.
LEMMA AppendIs ==
  ASSUME NEW kept \in Seq(Event), NEW h \in Handles, NEW s \in Statuses,
         NEW new, new = IF LastIs(kept, h, s) THEN kept ELSE Append(kept, Ev(h, s))
  PROVE  new \in Seq(Event) /\ Appended(kept, h, s, new)
<1>1. Len(kept) \in Nat /\ Ev(h, s) \in Event
  BY EventIs
<1>2. CASE LastIs(kept, h, s)
  <2> DEFINE S == [handle : {h}, status : Statuses]
             own == Of(kept, h)
  <2>1. own = Among(kept, S) /\ own # <<>> /\ own[Len(own)].status = s
    BY <1>2 DEF LastIs, Of
  <2>2. /\ own \in Seq(Event)
        /\ \A j \in 1 .. Len(own) : \E i \in 1 .. Len(kept) : own[j] = kept[i] /\ kept[i] \in S
    <3> HIDE DEF own, S
    <3>1. own \in Seq(Event) /\ Filtered(kept, S, own)
      BY <2>1, AmongIs
    <3> QED BY <3>1 DEF Filtered
  <2>3. \A e \in S : e = Ev(h, e.status)
    BY DEF Ev
  <2> HIDE DEF own, S
  <2>4. Len(own) \in 1 .. Len(own)
    BY <2>1, <2>2
  <2>5. PICK i \in 1 .. Len(kept) : own[Len(own)] = kept[i] /\ kept[i] \in S
    BY <2>2, <2>4
  <2>6. kept[i] = Ev(h, s)
    BY <2>1, <2>3, <2>5
  <2>7. In(kept, h, s)
    BY <2>6 DEF In, Ev
  <2>8. new = kept
    BY <1>2
  <2> QED BY <2>7, <2>8 DEF Appended
<1>3. CASE ~LastIs(kept, h, s)
  <2>1. /\ new \in Seq(Event) /\ Len(new) = Len(kept) + 1 /\ new[Len(kept) + 1] = Ev(h, s)
        /\ \A i \in 1 .. Len(kept) : new[i] = kept[i]
    BY <1>1, <1>3
  <2>2. /\ \A i \in 1 .. Len(kept) : i \in 1 .. Len(new)
        /\ \A i \in 1 .. Len(new) : i \in 1 .. Len(kept) \/ i = Len(kept) + 1
        /\ Len(kept) + 1 \in 1 .. Len(new)
    BY <1>1, <2>1
  <2>3. ASSUME NEW g, NEW r
        PROVE  In(new, g, r) <=> In(kept, g, r) \/ (g = h /\ r = s)
    <3>1. In(kept, g, r) => In(new, g, r)
      BY <2>1, <2>2 DEF In
    <3>2. In(new, h, s)
      BY <2>1, <2>2 DEF In, Ev
    <3>3. ASSUME NEW i \in 1 .. Len(new), new[i] = Ev(g, r)
          PROVE  In(kept, g, r) \/ (g = h /\ r = s)
      <4>1. CASE i \in 1 .. Len(kept)
        BY <2>1, <3>3, <4>1 DEF In, Ev
      <4>2. CASE i = Len(kept) + 1
        BY <2>1, <3>3, <4>2, EventIs
      <4> QED BY <2>2, <4>1, <4>2
    <3> QED BY <3>1, <3>2, <3>3 DEF In, Ev
  <2>4. ASSUME NEW g, Led(kept, g), g = h /\ s = "LinkTrainingFailed" => In(kept, h, "Connected"),
               NEW k \in 1 .. Len(new), new[k] = Ev(g, "LinkTrainingFailed")
        PROVE  \E i \in 1 .. (k - 1) : new[i] = Ev(g, "Connected")
    <3>1. CASE k \in 1 .. Len(kept)
      <4>1. kept[k] = Ev(g, "LinkTrainingFailed")
        BY <2>1, <2>4, <3>1
      <4>2. PICK i \in 1 .. (k - 1) : kept[i] = Ev(g, "Connected")
        BY <2>4, <3>1, <4>1 DEF Led, Ev
      <4>3. i \in 1 .. Len(kept)
        BY <1>1, <3>1
      <4> QED BY <2>1, <4>2, <4>3
    <3>2. CASE k = Len(kept) + 1
      <4>1. g = h /\ s = "LinkTrainingFailed"
        BY <2>1, <2>4, <3>2, EventIs
      <4>2. PICK i \in 1 .. Len(kept) : kept[i] = Ev(h, "Connected")
        BY <2>4, <4>1 DEF In, Ev
      <4>3. i \in 1 .. (k - 1)
        BY <1>1, <3>2
      <4> QED BY <2>1, <4>1, <4>2, <4>3
    <3> QED BY <2>2, <3>1, <3>2
  <2> QED BY <2>1, <2>3, <2>4 DEF Appended, Led, Ev
<1> QED BY <1>2, <1>3

\* A queue with one more event.
Added(events, h, s, new) ==
  /\ \A g \in Handles, r \in Statuses :
       In(new, g, r) <=>
         \/ g = h /\ r = s
         \/ /\ In(events, g, r)
            /\ ~(s = "Disconnected" /\ g = h /\ r \in {"Connected", "LinkTrainingFailed"})
  /\ \A g \in Handles :
       Led(events, g) /\ (g = h /\ s = "LinkTrainingFailed" => In(events, h, "Connected"))
         => Led(new, g)

\* What HotplugEventQueue::Add does to the queue.
LEMMA AddIs ==
  ASSUME queue \in Seq(Event), NEW h \in Handles, NEW s \in Statuses, NEW new, new = Add(h, s)
  PROVE  new \in Seq(Event) /\ Added(queue, h, s, new)
<1> DEFINE S == Event \ Obsolete(h)
           kept == IF s = "Disconnected" THEN Among(queue, S) ELSE queue
           gone(g, r) == s = "Disconnected" /\ g = h /\ r \in {"Connected", "LinkTrainingFailed"}
<1>1. new = IF LastIs(kept, h, s) THEN kept ELSE Append(kept, Ev(h, s))
  BY DEF Add, Ev
<1>2. ASSUME NEW g \in Handles, NEW r \in Statuses, s = "Disconnected"
      PROVE  Ev(g, r) \in S <=> ~gone(g, r)
  BY <1>2, EventIs DEF Obsolete, Ev
<1>3. /\ kept \in Seq(Event)
      /\ \A g \in Handles, r \in Statuses : In(kept, g, r) <=> In(queue, g, r) /\ ~gone(g, r)
      /\ \A g \in Handles : Led(queue, g) => Led(kept, g)
  <2>1. CASE s # "Disconnected"
    BY <2>1
  <2>2. CASE s = "Disconnected"
    <3>1. kept = Among(queue, S)
      BY <2>2
    <3> HIDE DEF S, kept
    <3>0. kept \in Seq(Event) /\ Filtered(queue, S, kept)
      BY <3>1, AmongIs
    <3>2. /\ kept \in Seq(Event)
          /\ \A i \in 1 .. Len(queue) : queue[i] \in S => \E j \in 1 .. Len(kept) : kept[j] = queue[i]
          /\ \A j \in 1 .. Len(kept) : \E i \in 1 .. Len(queue) :
               /\ kept[j] = queue[i] /\ queue[i] \in S
               /\ \A k \in 1 .. (i - 1) : queue[k] \in S => \E l \in 1 .. (j - 1) : kept[l] = queue[k]
      BY <3>0 DEF Filtered
    <3>3. ASSUME NEW g \in Handles, NEW r \in Statuses
          PROVE  In(kept, g, r) <=> In(queue, g, r) /\ ~gone(g, r)
      <4>1. ASSUME NEW i \in 1 .. Len(queue), queue[i] = Ev(g, r), ~gone(g, r)
            PROVE  In(kept, g, r)
        BY <1>2, <2>2, <3>2, <4>1 DEF In, Ev
      <4>2. ASSUME NEW j \in 1 .. Len(kept), kept[j] = Ev(g, r)
            PROVE  In(queue, g, r) /\ ~gone(g, r)
        <5>1. PICK i \in 1 .. Len(queue) : kept[j] = queue[i] /\ queue[i] \in S
          BY <3>2
        <5>2. In(queue, g, r)
          BY <4>2, <5>1 DEF In, Ev
        <5> QED BY <1>2, <2>2, <4>2, <5>1, <5>2
      <4> QED BY <4>1, <4>2 DEF In, Ev
    <3>4. ASSUME NEW g \in Handles, Led(queue, g),
                 NEW j \in 1 .. Len(kept), kept[j] = Ev(g, "LinkTrainingFailed")
          PROVE  \E l \in 1 .. (j - 1) : kept[l] = Ev(g, "Connected")
      <4>1. PICK i \in 1 .. Len(queue) :
               /\ kept[j] = queue[i] /\ queue[i] \in S
               /\ \A k \in 1 .. (i - 1) : queue[k] \in S => \E l \in 1 .. (j - 1) : kept[l] = queue[k]
        BY <3>2
      <4>2. PICK k \in 1 .. (i - 1) : queue[k] = Ev(g, "Connected")
        BY <3>4, <4>1 DEF Led, Ev
      <4>3. g # h
        BY <1>2, <2>2, <3>4, <4>1, StatusesAre
      <4>4. Ev(g, "Connected") \in S
        BY <1>2, <2>2, <4>3, StatusesAre
      <4> QED BY <4>1, <4>2, <4>4
    <3> QED BY <3>2, <3>3, <3>4 DEF Led, Ev
  <2> QED BY <2>1, <2>2
<1> HIDE DEF kept
<1>4. new \in Seq(Event) /\ Appended(kept, h, s, new)
  BY <1>1, <1>3, AppendIs
<1>5. ASSUME s = "LinkTrainingFailed", In(queue, h, "Connected") PROVE In(kept, h, "Connected")
  BY <1>3, <1>5, StatusesAre
<1> QED BY <1>3, <1>4, <1>5 DEF Appended, Added

\* The same events in another order, each error behind its connection.
Resorted(events, new) ==
  /\ \A g \in Handles, r \in Statuses : In(new, g, r) <=> In(events, g, r)
  /\ \A g \in Handles : Led(events, g) => Led(new, g)

\* What a flush does to the queue that it swapped out.
LEMMA TwoPassesIs ==
  ASSUME NEW events \in Seq(Event), NEW new, new = TwoPasses(events)
  PROVE  new \in Seq(Event) /\ Resorted(events, new)
<1> DEFINE D == Disconnects
           N == Event \ Disconnects
           F == Among(events, D)
           G == Among(events, N)
<1>0. /\ F \in Seq(Event) /\ Filtered(events, D, F)
      /\ G \in Seq(Event) /\ Filtered(events, N, G)
  BY AmongIs
<1>1. /\ F \in Seq(Event)
      /\ \A i \in 1 .. Len(events) : events[i] \in D => \E j \in 1 .. Len(F) : F[j] = events[i]
      /\ \A j \in 1 .. Len(F) : \E i \in 1 .. Len(events) : F[j] = events[i] /\ events[i] \in D
  <2> HIDE DEF F, D, G, N
  <2> QED BY <1>0 DEF Filtered
<1>2. /\ G \in Seq(Event)
      /\ \A i \in 1 .. Len(events) : events[i] \in N => \E j \in 1 .. Len(G) : G[j] = events[i]
      /\ \A j \in 1 .. Len(G) : \E i \in 1 .. Len(events) :
           /\ G[j] = events[i] /\ events[i] \in N
           /\ \A k \in 1 .. (i - 1) : events[k] \in N => \E l \in 1 .. (j - 1) : G[l] = events[k]
  <2> HIDE DEF F, D, G, N
  <2> QED BY <1>0 DEF Filtered
<1>3. new = F \o G
  BY DEF TwoPasses
<1>4. \A g \in Handles, r \in Statuses : Ev(g, r) \in D \cup N /\ (r # "Disconnected" => Ev(g, r) \in N)
  BY EventIs DEF Disconnects, Ev
<1>5. ASSUME NEW g PROVE Ev(g, "LinkTrainingFailed") \notin D
  BY EventIs DEF Disconnects, Ev
<1> HIDE DEF F, G, D, N
<1>6. Len(F) \in Nat /\ Len(G) \in Nat
  BY <1>1, <1>2
<1>7. /\ new \in Seq(Event) /\ Len(new) = Len(F) + Len(G)
      /\ \A j \in 1 .. Len(F) : new[j] = F[j]
      /\ \A j \in 1 .. Len(G) : new[Len(F) + j] = G[j]
  BY <1>1, <1>2, <1>3
<1>8. /\ \A j \in 1 .. Len(F) : j \in 1 .. Len(new)
      /\ \A j \in 1 .. Len(G) : Len(F) + j \in 1 .. Len(new)
      /\ \A j \in 1 .. Len(new) : j \in 1 .. Len(F)
                                  \/ (j - Len(F) \in 1 .. Len(G) /\ Len(F) + (j - Len(F)) = j)
  BY <1>6, <1>7
<1>9. ASSUME NEW g \in Handles, NEW r \in Statuses
      PROVE  In(new, g, r) <=> In(events, g, r)
  <2>1. ASSUME NEW i \in 1 .. Len(events), events[i] = Ev(g, r)
        PROVE  \E j \in 1 .. Len(new) : new[j] = Ev(g, r)
    <3>1. CASE events[i] \in D
      <4>1. PICK j \in 1 .. Len(F) : F[j] = events[i]
        BY <1>1, <3>1
      <4> QED BY <1>7, <1>8, <2>1, <4>1
    <3>2. CASE events[i] \in N
      <4>1. PICK j \in 1 .. Len(G) : G[j] = events[i]
        BY <1>2, <3>2
      <4>2. new[Len(F) + j] = Ev(g, r)
        BY <1>7, <2>1, <4>1
      <4>3. Len(F) + j \in 1 .. Len(new)
        BY <1>8
      <4> QED BY <4>2, <4>3
    <3>3. Ev(g, r) \in D \cup N
      BY <1>4
    <3> QED BY <2>1, <3>1, <3>2, <3>3
  <2>2. ASSUME NEW j \in 1 .. Len(new), new[j] = Ev(g, r)
        PROVE  \E i \in 1 .. Len(events) : events[i] = Ev(g, r)
    <3>1. CASE j \in 1 .. Len(F)
      <4>1. F[j] = Ev(g, r)
        BY <1>7, <2>2, <3>1
      <4>2. PICK i \in 1 .. Len(events) : F[j] = events[i]
        BY <1>1, <3>1
      <4> QED BY <4>1, <4>2
    <3>2. CASE j - Len(F) \in 1 .. Len(G) /\ Len(F) + (j - Len(F)) = j
      <4>1. new[j] = G[j - Len(F)]
        BY <1>7, <3>2
      <4>2. PICK i \in 1 .. Len(events) : G[j - Len(F)] = events[i]
        BY <1>2, <3>2
      <4> QED BY <2>2, <4>1, <4>2
    <3> QED BY <1>8, <3>1, <3>2
  <2> QED BY <2>1, <2>2 DEF In, Ev
<1>10. ASSUME NEW g \in Handles, Led(events, g),
              NEW j \in 1 .. Len(new), new[j] = Ev(g, "LinkTrainingFailed")
       PROVE  \E l \in 1 .. (j - 1) : new[l] = Ev(g, "Connected")
  <2>1. j \notin 1 .. Len(F)
    BY <1>1, <1>5, <1>7, <1>10
  <2>2. j - Len(F) \in 1 .. Len(G) /\ Len(F) + (j - Len(F)) = j
    BY <1>8, <2>1
  <2>3. G[j - Len(F)] = Ev(g, "LinkTrainingFailed")
    BY <1>7, <1>10, <2>2
  <2> DEFINE m == j - Len(F)
  <2>4. m \in 1 .. Len(G) /\ G[m] = Ev(g, "LinkTrainingFailed") /\ j = Len(F) + m
    BY <2>2, <2>3
  <2> HIDE DEF m
  <2>5. PICK i \in 1 .. Len(events) :
           /\ G[m] = events[i]
           /\ \A k \in 1 .. (i - 1) : events[k] \in N => \E l \in 1 .. (m - 1) : G[l] = events[k]
    BY <1>2, <2>4
  <2>6. PICK k \in 1 .. (i - 1) : events[k] = Ev(g, "Connected")
    BY <1>10, <2>4, <2>5 DEF Led, Ev
  <2>7. Ev(g, "Connected") \in N
    BY <1>4, StatusesAre
  <2>8. PICK l \in 1 .. (m - 1) : G[l] = Ev(g, "Connected")
    BY <2>5, <2>6, <2>7
  <2>9. l \in 1 .. Len(G) /\ Len(F) + l \in 1 .. (j - 1)
    BY <1>6, <2>4
  <2> QED BY <1>7, <2>8, <2>9
<1> QED BY <1>7, <1>9, <1>10 DEF Resorted, Led, Ev

\* A batch without its head.
Unsent(events, e, T) ==
  /\ \A g, r : In(events, g, r) <=> e = Ev(g, r) \/ In(T, g, r)
  /\ \A g : Led(events, g) => e = Ev(g, "Connected") \/ Led(T, g)
  /\ \A g : Led(events, g) => e # Ev(g, "LinkTrainingFailed")

\* What is left of a batch when its head is told.
LEMMA TailIs ==
  ASSUME NEW events \in Seq(Event), events # <<>>,
         NEW e, e = Head(events), NEW T, T = Tail(events)
  PROVE  e \in Event /\ T \in Seq(Event) /\ Unsent(events, e, T)
<1>1. /\ Len(events) \in Nat \ {0} /\ e = events[1] /\ e \in Event
      /\ T \in Seq(Event) /\ Len(T) = Len(events) - 1
      /\ \A i \in 1 .. Len(T) : T[i] = events[i + 1]
  OBVIOUS
<1>2. /\ 1 \in 1 .. Len(events)
      /\ \A i \in 1 .. Len(T) : i + 1 \in 1 .. Len(events)
      /\ \A i \in 1 .. Len(events) : i = 1 \/ (i - 1 \in 1 .. Len(T) /\ (i - 1) + 1 = i)
  BY <1>1
<1>3. ASSUME NEW g, NEW r
      PROVE  In(events, g, r) <=> e = Ev(g, r) \/ In(T, g, r)
  <2>1. ASSUME NEW i \in 1 .. Len(events), events[i] = Ev(g, r), i # 1
        PROVE  T[i - 1] = Ev(g, r) /\ i - 1 \in 1 .. Len(T)
    BY <1>1, <1>2, <2>1
  <2> QED BY <1>1, <1>2, <2>1 DEF In, Ev
<1>5. ASSUME NEW g, Led(events, g), e # Ev(g, "Connected"),
             NEW k \in 1 .. Len(T), T[k] = Ev(g, "LinkTrainingFailed")
      PROVE  \E i \in 1 .. (k - 1) : T[i] = Ev(g, "Connected")
  <2>1. k + 1 \in 1 .. Len(events) /\ events[k + 1] = Ev(g, "LinkTrainingFailed")
    BY <1>1, <1>2, <1>5
  <2>2. PICK i \in 1 .. ((k + 1) - 1) : events[i] = Ev(g, "Connected")
    BY <1>5, <2>1 DEF Led, Ev
  <2>3. i # 1 /\ i - 1 \in 1 .. (k - 1) /\ i - 1 \in 1 .. Len(T) /\ (i - 1) + 1 = i
    BY <1>1, <1>5, <2>2
  <2> QED BY <1>1, <2>2, <2>3
<1>6. ASSUME NEW g, Led(events, g) PROVE e # Ev(g, "LinkTrainingFailed")
  BY <1>1, <1>2, <1>6 DEF Led, Ev
<1> QED BY <1>1, <1>3, <1>5, <1>6 DEF Unsent, Led, Ev

-----------------------------------------------------------------------------
(* The steps, one display at a time.                                       *)

\* An empty queue, and one without link errors.
LEMMA NothingIn ==
  /\ \A h, s : ~In(<<>>, h, s)
  /\ \A h : Led(<<>>, h)
  /\ \A v, h : ~In(v, h, "LinkTrainingFailed") => Led(v, h)
BY DEF In, Led

\* All threads and the client flush; nobody is not somebody.
LEMMA FlusherIs == Threads \subseteq Flushers /\ Client \in Flushers /\ NoThread \notin Flushers
BY ConstantsAssumption DEF Flushers

\* A step that does nothing to a display, its events and what is told of it.
LEMMA Undisturbed ==
  ASSUME NEW h \in Handles, HandleInv(h),
         display'[h] = display[h], told'[h] = told[h], h \in connected' <=> h \in connected,
         \A s \in Statuses : In(queue', h, s) <=> In(queue, h, s),
         Led(queue, h) => Led(queue', h),
         \A t \in Flushers, s \in Statuses : In(batch'[t], h, s) <=> In(batch[t], h, s),
         \A t \in Flushers : Led(batch[t], h) => Led(batch'[t], h),
         \A t \in Flushers, s \in Statuses : Sends(t, h, s)' <=> Sends(t, h, s)
  PROVE  HandleInv(h)'
<1>1. NoneInv(h)'
  BY DEF HandleInv, NoneInv
<1>2. BoundInv(h)'
  BY StatusesAre DEF HandleInv, BoundInv
<1>3. GoneInv(h)'
  BY StatusesAre DEF HandleInv, GoneInv
<1>4. SetInv(h)'
  BY StatusesAre DEF HandleInv, SetInv
<1>5. ErrorInv(h)'
  BY StatusesAre DEF HandleInv, ErrorInv
<1> QED BY <1>1, <1>2, <1>3, <1>4, <1>5 DEF HandleInv

\* What a hotplug does to a display, and the event that it queues.
Hotplug(h, s) ==
  /\ \A g \in Handles : g # h => display'[g] = display[g]
  /\ \/ s = "Connected" /\ display[h] \in {"none", "bound"} /\ display'[h] = "bound"
     \/ s = "Disconnected" /\ display[h] = "bound" /\ display'[h] = "gone"
     \/ s = "LinkTrainingFailed" /\ display[h] = "bound" /\ display'[h] = "bound"
     \/ s = "IncompatibleCable" /\ display'[h] = display[h]

\* Queueing it keeps what holds of every display.
LEMMA HotplugKeeps ==
  ASSUME NEW h \in Handles, HandleInv(h), NEW g \in Handles, NEW s \in Statuses,
         Hotplug(g, s), Added(queue, g, s, queue'),
         UNCHANGED <<pc, batch, connected, told>>
  PROVE  HandleInv(h)'
<1>1. \A t, r : Sends(t, h, r)' <=> Sends(t, h, r)
  BY DEF Sends
<1>2. CASE h # g
  <2>1. \A r \in Statuses : In(queue', h, r) <=> In(queue, h, r)
    BY <1>2 DEF Added
  <2>2. Led(queue, h) => Led(queue', h)
    BY <1>2 DEF Added
  <2>3. display'[h] = display[h]
    BY <1>2 DEF Hotplug
  <2> QED BY <1>1, <2>1, <2>2, <2>3, Undisturbed
<1>3. CASE h = g
  <2>1. \A r \in Statuses :
          In(queue', h, r) <=>
            \/ r = s
            \/ In(queue, h, r) /\ ~(s = "Disconnected" /\ r \in {"Connected", "LinkTrainingFailed"})
    BY <1>3 DEF Added
  <2>2. Led(queue, h) /\ (s = "LinkTrainingFailed" => In(queue, h, "Connected"))
          => Led(queue', h)
    BY <1>3 DEF Added
  <2>3. \/ s = "Connected" /\ display[h] \in {"none", "bound"} /\ display'[h] = "bound"
        \/ s = "Disconnected" /\ display[h] = "bound" /\ display'[h] = "gone"
        \/ s = "LinkTrainingFailed" /\ display[h] = "bound" /\ display'[h] = "bound"
        \/ s = "IncompatibleCable" /\ display'[h] = display[h]
    BY <1>3 DEF Hotplug
  <2>4. NoneInv(h)'
    BY <2>1, <2>3 DEF HandleInv, NoneInv
  <2>5. BoundInv(h)'
    BY <2>1, <2>3, StatusesAre DEF HandleInv, NoneInv, BoundInv
  <2>6. GoneInv(h)'
    BY <2>1, <2>3, StatusesAre DEF HandleInv, BoundInv, GoneInv
  <2>7. SetInv(h)'
    BY <1>1 DEF HandleInv, SetInv
  <2>8. ErrorInv(h)'
    BY <2>2, <2>3, StatusesAre DEF HandleInv, BoundInv, ErrorInv
  <2> QED BY <2>4, <2>5, <2>6, <2>7, <2>8 DEF HandleInv
<1> QED BY <1>2, <1>3

\* What the thread does that handles a hotplug.
LEMMA HotplugIs ==
  ASSUME TypeOK, NEW t \in Threads,
         \/ BindDisplay(t) \/ UnbindDisplay(t) \/ ReplaceDisplay(t)
         \/ NotifyDisplayLinkStatus(t) \/ NotifyIncompatibleCable(t)
  PROVE  \E h \in Handles, s \in Statuses :
           /\ Hotplug(h, s) /\ Schedule(t, h, s)
           /\ display' \in [Handles -> {"none", "bound", "gone"}]
<1> DEFINE D == {"none", "bound", "gone"}
<1>0. display \in [Handles -> D] /\ Primary \in Handles
  BY DEF TypeOK, Handles
<1> HIDE DEF D
<1>1. "none" \in D /\ "bound" \in D /\ "gone" \in D
  BY DEF D
<1>2. CASE BindDisplay(t)
  <2>1. PICK h \in Handles : /\ display[h] = "none"
                             /\ display' = [display EXCEPT ![h] = "bound"]
                             /\ Schedule(t, h, "Connected")
    BY <1>2 DEF BindDisplay
  <2>2. Hotplug(h, "Connected") /\ display' \in [Handles -> D]
    BY <1>0, <1>1, <2>1 DEF Hotplug
  <2> QED BY <2>1, <2>2, StatusesAre DEF D
<1>3. CASE UnbindDisplay(t)
  <2>1. PICK h \in Handles :
          /\ display[h] = "bound"
          /\ IF h = Primary
               THEN UNCHANGED display /\ Schedule(t, h, "Connected")
               ELSE display' = [display EXCEPT ![h] = "gone"] /\ Schedule(t, h, "Disconnected")
    BY <1>3 DEF UnbindDisplay
  <2>2. CASE h = Primary
    <3>1. Hotplug(h, "Connected") /\ Schedule(t, h, "Connected") /\ display' \in [Handles -> D]
      BY <1>0, <2>1, <2>2 DEF Hotplug
    <3> QED BY <3>1, StatusesAre DEF D
  <2>3. CASE h # Primary
    <3>1. /\ Hotplug(h, "Disconnected") /\ Schedule(t, h, "Disconnected")
          /\ display' \in [Handles -> D]
      BY <1>0, <1>1, <2>1, <2>3 DEF Hotplug
    <3> QED BY <3>1, StatusesAre DEF D
  <2> QED BY <2>2, <2>3
<1>4. CASE ReplaceDisplay(t)
  <2>1. PICK h \in Handles : /\ display[h] = "bound" /\ UNCHANGED display
                             /\ Schedule(t, h, "Connected")
    BY <1>4 DEF ReplaceDisplay
  <2>2. Hotplug(h, "Connected") /\ display' \in [Handles -> D]
    BY <1>0, <2>1 DEF Hotplug
  <2> QED BY <2>1, <2>2, StatusesAre DEF D
<1>5. CASE NotifyDisplayLinkStatus(t)
  <2>1. PICK h \in Handles, s \in Errors : /\ display[h] = "bound" /\ UNCHANGED display
                                           /\ Schedule(t, h, s)
    BY <1>5 DEF NotifyDisplayLinkStatus
  <2>2. s \in Statuses /\ s \in {"LinkTrainingFailed", "IncompatibleCable"}
    BY DEF Statuses, Errors
  <2>3. Hotplug(h, s) /\ display' \in [Handles -> D]
    BY <1>0, <2>1, <2>2 DEF Hotplug
  <2> QED BY <2>1, <2>2, <2>3 DEF D
<1>6. CASE NotifyIncompatibleCable(t)
  <2>1. /\ Hotplug(Primary, "IncompatibleCable") /\ Schedule(t, Primary, "IncompatibleCable")
        /\ display' \in [Handles -> D]
    BY <1>0, <1>6 DEF NotifyIncompatibleCable, Hotplug
  <2> QED BY <1>0, <2>1, StatusesAre DEF D
<1> QED BY <1>2, <1>3, <1>4, <1>5, <1>6

\* So the steps that schedule an event keep the invariant.
LEMMA HotplugStep ==
  ASSUME IInv, NEW t \in Threads,
         \/ BindDisplay(t) \/ UnbindDisplay(t) \/ ReplaceDisplay(t)
         \/ NotifyDisplayLinkStatus(t) \/ NotifyIncompatibleCable(t)
  PROVE  IInv'
<1>1. PICK h \in Handles, s \in Statuses :
        /\ Hotplug(h, s) /\ Schedule(t, h, s)
        /\ display' \in [Handles -> {"none", "bound", "gone"}]
  BY HotplugIs DEF IInv
<1>2. /\ queue' = Add(h, s) /\ scheduled' = scheduled + 1 /\ scheduled < MaxEvents
      /\ UNCHANGED <<lock, callback, pc, batch, connected, told, crossed>>
  BY <1>1 DEF Schedule
<1>3. queue' \in Seq(Event) /\ Added(queue, h, s, queue')
  BY <1>2, AddIs DEF IInv, TypeOK
<1>4. TypeOK'
  BY <1>1, <1>2, <1>3, ConstantsAssumption DEF IInv, TypeOK
<1>5. StepInv' /\ OneBatch'
  BY <1>2 DEF IInv, StepInv, OneBatch
<1>6. ASSUME NEW g \in Handles, g \notin crossed' PROVE HandleInv(g)'
  BY <1>1, <1>2, <1>3, <1>6, HotplugKeeps DEF IInv
<1> QED BY <1>4, <1>5, <1>6 DEF IInv

\* Steps that move a thread, and no event.
LEMMA LockStep ==
  ASSUME IInv, NEW t \in Threads, Lock(t)
  PROVE  IInv'
<1>1. /\ t \in Flushers /\ pc[t] = "idle" /\ lock = NoThread
      /\ lock' = t /\ pc' = [pc EXCEPT ![t] = "locked"]
      /\ UNCHANGED <<display, queue, callback, batch, connected, told, scheduled, crossed>>
  BY FlusherIs DEF Lock
<1>2. pc \in [Flushers -> {"idle", "locked", "flush", "send", "sending"}]
  BY DEF IInv, TypeOK
<1>3. /\ pc'[t] = "locked" /\ pc' \in [Flushers -> {"idle", "locked", "flush", "send", "sending"}]
      /\ \A u \in Flushers : u # t => pc'[u] = pc[u]
  BY <1>1, <1>2
<1>4. TypeOK'
  BY <1>1, <1>3 DEF IInv, TypeOK
<1>5. StepInv'
  BY <1>1, <1>3 DEF IInv, StepInv
<1>6. OneBatch'
  BY <1>1 DEF IInv, OneBatch
<1>7. \A g, s : \A u \in Flushers : Sends(u, g, s)' <=> Sends(u, g, s)
  BY <1>1, <1>3 DEF Sends
<1>8. ASSUME NEW g \in Handles \ crossed' PROVE HandleInv(g)'
  BY <1>1, <1>7, Undisturbed DEF IInv
<1> QED BY <1>4, <1>5, <1>6, <1>8 DEF IInv

\* It goes on to its flush.
LEMMA UnlockStep ==
  ASSUME IInv, NEW t \in Flushers, Unlock(t)
  PROVE  IInv'
<1>1. /\ lock = t /\ lock' = NoThread /\ pc' = [pc EXCEPT ![t] = "flush"]
      /\ UNCHANGED <<display, queue, callback, batch, connected, told, scheduled, crossed>>
  BY DEF Unlock
<1>2. /\ pc \in [Flushers -> {"idle", "locked", "flush", "send", "sending"}]
      /\ pc[t] = "locked"
  BY <1>1, FlusherIs DEF IInv, TypeOK, StepInv
<1>3. /\ pc'[t] = "flush" /\ pc' \in [Flushers -> {"idle", "locked", "flush", "send", "sending"}]
      /\ \A u \in Flushers : u # t => pc'[u] = pc[u]
  BY <1>1, <1>2
<1>4. TypeOK'
  BY <1>1, <1>3 DEF IInv, TypeOK
<1>5. StepInv'
  BY <1>1, <1>2, <1>3, FlusherIs DEF IInv, StepInv
<1>6. OneBatch'
  BY <1>1 DEF IInv, OneBatch
<1>7. \A g, s : \A u \in Flushers : Sends(u, g, s)' <=> Sends(u, g, s)
  BY <1>1, <1>2, <1>3 DEF Sends
<1>8. ASSUME NEW g \in Handles \ crossed' PROVE HandleInv(g)'
  BY <1>1, <1>7, Undisturbed DEF IInv
<1> QED BY <1>4, <1>5, <1>6, <1>8 DEF IInv

\* A client comes: nothing was told yet and nothing is being sent.
LEMMA RegisterStep ==
  ASSUME IInv, RegisterCallback
  PROVE  IInv'
<1>1. /\ pc[Client] = "idle" /\ ~callback /\ callback' /\ connected' = {} /\ lock = NoThread
      /\ pc' = [pc EXCEPT ![Client] = "flush"]
      /\ UNCHANGED <<display, queue, lock, batch, told, scheduled, crossed>>
  BY DEF RegisterCallback
<1>2. /\ pc \in [Flushers -> {"idle", "locked", "flush", "send", "sending"}]
      /\ Client \in Flushers /\ connected = {}
  BY <1>1, FlusherIs DEF IInv, TypeOK, StepInv
<1>3. /\ pc'[Client] = "flush"
      /\ pc' \in [Flushers -> {"idle", "locked", "flush", "send", "sending"}]
      /\ \A u \in Flushers : u # Client => pc'[u] = pc[u]
  BY <1>1, <1>2
<1>4. TypeOK'
  <2>1. callback' \in BOOLEAN
    BY <1>1 DEF RegisterCallback
  <2> QED BY <1>1, <1>2, <1>3, <2>1 DEF IInv, TypeOK
<1>5. StepInv'
  <2>1. /\ lock' \in Threads => pc'[lock'] = "locked"
        /\ callback'
    BY <1>1, ConstantsAssumption
  <2>2. ASSUME NEW u \in Flushers
        PROVE  /\ pc'[u] \notin {"send", "sending"} => batch'[u] = <<>>
               /\ pc'[u] = "sending" => batch'[u] # <<>>
    BY <1>1, <1>2, <1>3 DEF IInv, StepInv
  <2> QED BY <2>1, <2>2 DEF StepInv
<1>6. OneBatch'
  BY <1>1 DEF IInv, OneBatch
<1>7. \A g, s : \A u \in Flushers : Sends(u, g, s)' <=> Sends(u, g, s)
  BY <1>1, <1>2, <1>3 DEF Sends
<1>8. ASSUME NEW g \in Handles \ crossed' PROVE HandleInv(g)'
  BY <1>1, <1>2, <1>7, Undisturbed DEF IInv
<1> QED BY <1>4, <1>5, <1>6, <1>8 DEF IInv

\* The batch is told.
LEMMA FlushDoneStep ==
  ASSUME IInv, NEW t \in Flushers, FlushDone(t)
  PROVE  IInv'
<1>1. /\ pc[t] = "send" /\ batch[t] = <<>> /\ pc' = [pc EXCEPT ![t] = "idle"]
      /\ UNCHANGED <<display, queue, lock, callback, batch, connected, told, scheduled, crossed>>
  BY DEF FlushDone
<1>2. pc \in [Flushers -> {"idle", "locked", "flush", "send", "sending"}]
  BY DEF IInv, TypeOK
<1>3. /\ pc'[t] = "idle" /\ pc' \in [Flushers -> {"idle", "locked", "flush", "send", "sending"}]
      /\ \A u \in Flushers : u # t => pc'[u] = pc[u]
  BY <1>1, <1>2
<1>4. TypeOK'
  BY <1>1, <1>3 DEF IInv, TypeOK
<1>5. StepInv'
  BY <1>1, <1>2, <1>3, FlusherIs DEF IInv, StepInv
<1>6. OneBatch'
  BY <1>1 DEF IInv, OneBatch
<1>7. \A g, s : \A u \in Flushers : Sends(u, g, s)' <=> Sends(u, g, s)
  BY <1>1, <1>2, <1>3 DEF Sends
<1>8. ASSUME NEW g \in Handles \ crossed' PROVE HandleInv(g)'
  BY <1>1, <1>7, Undisturbed DEF IInv
<1> QED BY <1>4, <1>5, <1>6, <1>8 DEF IInv

-----------------------------------------------------------------------------
(* A flush: what was queued becomes a batch.                               *)

\* Without a client the queue stays.
LEMMA FlushUnheard ==
  ASSUME IInv, NEW t \in Flushers, Flush(t), ~callback
  PROVE  IInv'
<1>1. /\ pc[t] = "flush" /\ queue' = queue /\ batch' = [batch EXCEPT ![t] = <<>>]
      /\ pc' = [pc EXCEPT ![t] = "idle"] /\ crossed' = crossed
      /\ UNCHANGED <<display, lock, callback, connected, told, scheduled>>
  BY DEF Flush, QueueAfterFlush
<1>2. /\ pc \in [Flushers -> {"idle", "locked", "flush", "send", "sending"}]
      /\ batch \in [Flushers -> Seq(Event)] /\ batch[t] = <<>>
  BY <1>1 DEF IInv, TypeOK, StepInv
<1>3. /\ pc'[t] = "idle" /\ pc' \in [Flushers -> {"idle", "locked", "flush", "send", "sending"}]
      /\ \A u \in Flushers : u # t => pc'[u] = pc[u]
      /\ batch' = batch
  BY <1>1, <1>2
<1>4. TypeOK'
  BY <1>1, <1>3 DEF IInv, TypeOK
<1>5. StepInv'
  BY <1>1, <1>2, <1>3, FlusherIs DEF IInv, StepInv
<1>6. OneBatch'
  BY <1>1, <1>3 DEF IInv, OneBatch
<1>7. \A g, s : \A u \in Flushers : Sends(u, g, s)' <=> Sends(u, g, s)
  BY <1>1, <1>2, <1>3 DEF Sends
<1>8. ASSUME NEW g \in Handles \ crossed' PROVE HandleInv(g)'
  BY <1>1, <1>3, <1>7, Undisturbed DEF IInv
<1> QED BY <1>4, <1>5, <1>6, <1>8 DEF IInv

\* With a client the thread takes it; its events of a display are the only ones
\* on their way, unless two threads cross.
LEMMA FlushHeard ==
  ASSUME IInv, NEW t \in Flushers, Flush(t), callback
  PROVE  IInv'
<1> DEFINE R == TwoPasses(queue)
<1>1. /\ pc[t] = "flush" /\ queue' = <<>> /\ batch' = [batch EXCEPT ![t] = R]
      /\ pc' = [pc EXCEPT ![t] = "send"]
      /\ crossed' = crossed \cup {h \in Handles : /\ Of(queue, h) # <<>>
                                                  /\ \E u \in Flushers : Of(batch[u], h) # <<>>}
      /\ UNCHANGED <<display, lock, callback, connected, told, scheduled>>
  BY DEF Flush, QueueAfterFlush
<1>2. /\ pc \in [Flushers -> {"idle", "locked", "flush", "send", "sending"}]
      /\ batch \in [Flushers -> Seq(Event)] /\ batch[t] = <<>> /\ queue \in Seq(Event)
  BY <1>1 DEF IInv, TypeOK, StepInv
<1>3. R \in Seq(Event) /\ Resorted(queue, R)
  BY <1>2, TwoPassesIs
<1> HIDE DEF R
<1>4. /\ pc'[t] = "send" /\ pc' \in [Flushers -> {"idle", "locked", "flush", "send", "sending"}]
      /\ \A u \in Flushers : u # t => pc'[u] = pc[u] /\ batch'[u] = batch[u]
      /\ batch'[t] = R /\ batch' \in [Flushers -> Seq(Event)]
  BY <1>1, <1>2, <1>3
<1>5. TypeOK'
  BY <1>1, <1>4 DEF IInv, TypeOK
<1>6. StepInv'
  BY <1>1, <1>2, <1>4, FlusherIs DEF IInv, StepInv
<1>7. ASSUME NEW h \in Handles \ crossed'
      PROVE  h \notin crossed /\ (Has(queue, h) => \A u \in Flushers : ~Has(batch[u], h))
  BY <1>1, <1>2, OfIs
<1>8. \A h \in Handles : Has(R, h) <=> Has(queue, h)
  BY <1>3 DEF Resorted, Has
<1>9. OneBatch'
  BY <1>4, <1>7, <1>8 DEF IInv, OneBatch
<1>10. \A g, s : \A u \in Flushers : Sends(u, g, s)' <=> Sends(u, g, s)
  BY <1>1, <1>4 DEF Sends
<1>11. ASSUME NEW h \in Handles \ crossed' PROVE HandleInv(h)'
  <2>1. HandleInv(h)
    BY <1>7 DEF IInv
  <2>2. /\ \A s \in Statuses : ~In(queue', h, s) /\ ~In(batch[t], h, s)
        /\ \A s \in Statuses : In(batch'[t], h, s) <=> In(queue, h, s)
        /\ Led(queue, h) => Led(batch'[t], h)
        /\ \A u \in Flushers : u # t => batch'[u] = batch[u]
    BY <1>1, <1>2, <1>3, <1>4, NothingIn DEF Resorted
  <2>3. \A u \in Flushers, r, s \in Statuses : In(queue, h, r) => ~In(batch[u], h, s)
    BY <1>7 DEF Has
  <2>4. display'[h] = display[h] /\ told'[h] = told[h] /\ connected' = connected
    BY <1>1
  <2>5. NoneInv(h)'
    BY <2>1, <2>2, <2>4 DEF HandleInv, NoneInv
  <2>6. BoundInv(h)'
    BY <2>1, <2>2, <2>4, StatusesAre DEF HandleInv, BoundInv
  <2>7. GoneInv(h)'
    <3> SUFFICES ASSUME display[h] = "gone"
                 PROVE  /\ ~In(queue', h, "Connected") /\ ~In(queue', h, "LinkTrainingFailed")
                        /\ \/ told[h] = "Disconnected" \/ In(queue', h, "Disconnected")
                           \/ \E u \in Flushers : In(batch'[u], h, "Disconnected")
                        /\ \A u \in Flushers : ~In(batch'[u], h, "Connected")
                                               /\ ~In(batch'[u], h, "LinkTrainingFailed")
      BY <2>4 DEF GoneInv
    <3>1. ~In(queue, h, "Connected") /\ ~In(queue, h, "LinkTrainingFailed")
      BY <2>1 DEF HandleInv, GoneInv
    <3>2. \/ told[h] = "Disconnected"
          \/ \E u \in Flushers : In(batch'[u], h, "Disconnected")
      BY <2>1, <2>2, StatusesAre DEF HandleInv, GoneInv
    <3>3. ASSUME NEW u \in Flushers
          PROVE  ~In(batch'[u], h, "Connected") /\ ~In(batch'[u], h, "LinkTrainingFailed")
      <4>1. CASE u = t
        BY <2>2, <3>1, <4>1, StatusesAre
      <4>2. CASE u # t
        <5>1. In(batch[u], h, "Connected") \/ In(batch[u], h, "LinkTrainingFailed")
                => In(queue, h, "Disconnected")
          BY <2>1 DEF HandleInv, GoneInv
        <5> QED BY <2>2, <2>3, <4>2, <5>1, StatusesAre
      <4> QED BY <4>1, <4>2
    <3> QED BY <2>2, <3>2, <3>3, StatusesAre
  <2>8. SetInv(h)'
    BY <1>10, <2>1, <2>4 DEF HandleInv, SetInv
  <2>9. ErrorInv(h)'
    <3>1. Led(queue', h)
      BY <2>2, NothingIn, StatusesAre
    <3>2. told[h] = "Connected" \/ Led(queue, h)
      BY <2>1, <2>3, NothingIn, StatusesAre DEF HandleInv, ErrorInv
    <3>3. \A u \in Flushers : told'[h] = "Connected" \/ Led(batch'[u], h)
      BY <2>1, <2>2, <2>4, <3>2 DEF HandleInv, ErrorInv
    <3> QED BY <3>1, <3>3 DEF ErrorInv
  <2> QED BY <2>5, <2>6, <2>7, <2>8, <2>9 DEF HandleInv
<1> QED BY <1>5, <1>6, <1>9, <1>11 DEF IInv

-----------------------------------------------------------------------------
(* Telling the client of an event.                                         *)

\* The client is told of events of the batch.
LEMMA SendsIn ==
  ASSUME IInv, NEW t \in Flushers, NEW h, NEW s, Sends(t, h, s)
  PROVE  In(batch[t], h, s)
<1>1. /\ batch[t] \in Seq(Event) /\ batch[t] # <<>>
      /\ Head(batch[t]) = [handle |-> h, status |-> s]
  BY DEF Sends, IInv, TypeOK, StepInv
<1>2. 1 \in 1 .. Len(batch[t]) /\ batch[t][1] = Head(batch[t])
  BY <1>1
<1> QED BY <1>1, <1>2 DEF In

\* The first half of SendHotplugEventToClient: a disconnected display leaves
\* connected_displays_, or the client is told of an event.
LEMMA SendBeginStep ==
  ASSUME IInv, NEW t \in Flushers, SendBegin(t)
  PROVE  IInv'
<1> DEFINE e == Head(batch[t])
           T == Tail(batch[t])
<1>1. /\ pc[t] = "send" /\ batch[t] # <<>> /\ pc' = [pc EXCEPT ![t] = "sending"]
      /\ UNCHANGED <<display, queue, lock, callback, batch, scheduled, crossed>>
  BY DEF SendBegin
<1>2. \/ e.status = "Disconnected" /\ connected' = connected \ {e.handle} /\ told' = told
      \/ e.status = "Connected" /\ told' = [told EXCEPT ![e.handle] = "Connected"]
         /\ connected' = connected
      \/ e.status \notin {"Connected", "Disconnected"} /\ told' = told /\ connected' = connected
  BY DEF SendBegin
<1>3. /\ pc \in [Flushers -> {"idle", "locked", "flush", "send", "sending"}]
      /\ batch[t] \in Seq(Event) /\ told \in [Handles -> {"none", "Connected", "Disconnected"}]
      /\ connected \subseteq Handles /\ callback
  BY <1>1 DEF IInv, TypeOK, StepInv
<1>4. e \in Event /\ T \in Seq(Event) /\ Unsent(batch[t], e, T)
  BY <1>1, <1>3, TailIs
<1> DEFINE g == e.handle
           s == e.status
<1>5. g \in Handles /\ s \in Statuses /\ e = Ev(g, s) /\ In(batch[t], g, s)
  <2> HIDE DEF e, T
  <2>1. g \in Handles /\ s \in Statuses /\ e = Ev(g, s)
    BY <1>4, EventIs
  <2> QED BY <1>4, <2>1 DEF Unsent
<1>6. e = Head(batch[t])
  OBVIOUS
<1> HIDE DEF e, T, g, s
<1>7. /\ told' \in [Handles -> {"none", "Connected", "Disconnected"}]
      /\ connected' \subseteq Handles
      /\ \A h \in Handles : h # g => told'[h] = told[h] /\ (h \in connected' <=> h \in connected)
      /\ s = "Connected" => told'[g] = "Connected" /\ connected' = connected
      /\ s = "Disconnected" => g \notin connected' /\ told'[g] = told[g]
      /\ s \notin {"Connected", "Disconnected"} => told' = told /\ connected' = connected
  BY <1>2, <1>3, <1>5 DEF g, s
<1>8. /\ pc'[t] = "sending"
      /\ pc' \in [Flushers -> {"idle", "locked", "flush", "send", "sending"}]
      /\ \A u \in Flushers : u # t => pc'[u] = pc[u]
  BY <1>1, <1>3
<1>9. TypeOK'
  BY <1>1, <1>7, <1>8 DEF IInv, TypeOK
<1>10. StepInv'
  BY <1>1, <1>3, <1>8, FlusherIs DEF IInv, StepInv
<1>11. OneBatch'
  BY <1>1 DEF IInv, OneBatch
<1>12. \A h, r : Sends(t, h, r)' <=> e = Ev(h, r)
  BY <1>1, <1>6, <1>8 DEF Sends, Ev
<1>13. \A h, r : ~Sends(t, h, r)
  BY <1>1 DEF Sends
<1>14. \A h, r : \A u \in Flushers : u # t => (Sends(u, h, r)' <=> Sends(u, h, r))
  BY <1>1, <1>8 DEF Sends
<1>15. ASSUME NEW h \in Handles \ crossed' PROVE HandleInv(h)'
  <2>1. h \in Handles \ crossed /\ HandleInv(h)
    BY <1>1 DEF IInv
  <2>2. CASE h # g
    <3>1. \A r : ~Sends(t, h, r)'
      BY <1>5, <1>12, <2>2, EventIs
    <3>2. \A u \in Flushers, r \in Statuses : Sends(u, h, r)' <=> Sends(u, h, r)
      BY <1>13, <1>14, <3>1
    <3> QED BY <1>1, <1>7, <2>1, <2>2, <3>2, Undisturbed
  <2>3. CASE h = g
    <3>1. /\ display' = display /\ queue' = queue /\ batch' = batch
          /\ In(batch[t], h, s)
          /\ s = "Connected" => told'[h] = "Connected" /\ connected' = connected
          /\ s = "Disconnected" => h \notin connected' /\ told'[h] = told[h]
          /\ s \notin {"Connected", "Disconnected"} => told'[h] = told[h] /\ connected' = connected
      BY <1>1, <1>5, <1>7, <2>3
    <3>2. \A r : Sends(t, h, r)' <=> r = s
      BY <1>5, <1>12, <2>3, EventIs
    <3>3. ASSUME NEW u \in Flushers, u # t, NEW r \in Statuses
          PROVE  ~Sends(u, h, r)'
      <4>1. Has(batch[t], h)
        BY <1>5, <2>3 DEF Has
      <4>2. ~Has(batch[u], h)
        BY <2>1, <3>3, <4>1 DEF IInv, OneBatch
      <4>3. ~In(batch[u], h, r)
        BY <4>2 DEF Has
      <4>4. ~Sends(u, h, r)
        BY <3>3, <4>3, SendsIn
      <4> QED BY <1>14, <3>3, <4>4
    <3>4. s = "Connected" => display[h] # "none"
      BY <2>1, <3>1, StatusesAre DEF HandleInv, NoneInv
    <3>5. s = "Disconnected" => display[h] # "none" /\ display[h] # "bound"
      BY <2>1, <3>1, StatusesAre DEF HandleInv, NoneInv, BoundInv
    <3>6. s = "Connected" /\ display[h] = "gone" => In(queue, h, "Disconnected")
      BY <2>1, <3>1 DEF HandleInv, GoneInv
    <3>7. NoneInv(h)'
      BY <2>1, <3>1, <3>4, <3>5 DEF HandleInv, NoneInv
    <3>8. BoundInv(h)'
      BY <2>1, <3>1 DEF HandleInv, BoundInv
    <3>9. GoneInv(h)'
      BY <2>1, <3>1, <3>6 DEF HandleInv, GoneInv
    <3>10. SetInv(h)'
      <4>1. CASE s = "Connected"
        BY <3>1, <3>2, <3>3, <4>1, StatusesAre DEF SetInv
      <4>2. CASE s = "Disconnected"
        BY <3>1, <3>2, <3>3, <4>2, StatusesAre DEF SetInv
      <4>3. CASE s \notin {"Connected", "Disconnected"}
        <5>1. \A u \in Flushers : ~Sends(u, h, "Connected") /\ ~Sends(u, h, "Disconnected")
          BY <1>13, <1>14, <3>3, StatusesAre
        <5>2. h \in connected' <=> told'[h] = "Connected"
          BY <2>1, <3>1, <4>3, <5>1 DEF HandleInv, SetInv
        <5> QED BY <3>2, <3>3, <4>3, <5>2, StatusesAre DEF SetInv
      <4> QED BY <4>1, <4>2, <4>3
    <3>11. ErrorInv(h)'
      BY <2>1, <3>1 DEF HandleInv, ErrorInv
    <3> QED BY <3>7, <3>8, <3>9, <3>10, <3>11 DEF HandleInv
  <2> QED BY <2>2, <2>3
<1> QED BY <1>9, <1>10, <1>11, <1>15 DEF IInv

\* The second half: the client is told of the disconnect, or a connected display
\* enters connected_displays_.
LEMMA SendEndStep ==
  ASSUME IInv, NEW t \in Flushers, SendEnd(t)
  PROVE  IInv'
<1> DEFINE e == Head(batch[t])
           T == Tail(batch[t])
<1>1. /\ pc[t] = "sending" /\ pc' = [pc EXCEPT ![t] = "send"]
      /\ batch' = [batch EXCEPT ![t] = T]
      /\ UNCHANGED <<display, queue, lock, callback, scheduled, crossed>>
  BY DEF SendEnd, Sent
<1>2. \/ e.status = "Disconnected" /\ told' = [told EXCEPT ![e.handle] = "Disconnected"]
         /\ connected' = connected
      \/ e.status = "Connected" /\ connected' = connected \cup {e.handle} /\ told' = told
      \/ e.status \notin {"Connected", "Disconnected"} /\ told' = told /\ connected' = connected
  BY DEF SendEnd
<1>3. /\ pc \in [Flushers -> {"idle", "locked", "flush", "send", "sending"}]
      /\ batch \in [Flushers -> Seq(Event)]
      /\ told \in [Handles -> {"none", "Connected", "Disconnected"}]
      /\ connected \subseteq Handles /\ callback /\ batch[t] # <<>>
  BY <1>1 DEF IInv, TypeOK, StepInv
<1>4. e \in Event /\ T \in Seq(Event) /\ Unsent(batch[t], e, T)
  <2>1. batch[t] \in Seq(Event)
    BY <1>3
  <2> QED BY <1>3, <2>1, TailIs
<1> DEFINE g == e.handle
           s == e.status
<1>5. g \in Handles /\ s \in Statuses /\ e = Ev(g, s) /\ In(batch[t], g, s)
  <2> HIDE DEF e, T
  <2>1. g \in Handles /\ s \in Statuses /\ e = Ev(g, s)
    BY <1>4, EventIs
  <2> QED BY <1>4, <2>1 DEF Unsent
<1>6. e = Head(batch[t])
  OBVIOUS
<1> HIDE DEF e, T, g, s
<1>7. /\ told' \in [Handles -> {"none", "Connected", "Disconnected"}]
      /\ connected' \subseteq Handles
      /\ \A h \in Handles : h # g => told'[h] = told[h] /\ (h \in connected' <=> h \in connected)
      /\ s = "Connected" => told'[g] = told[g] /\ g \in connected'
      /\ s = "Disconnected" => told'[g] = "Disconnected" /\ connected' = connected
      /\ s \notin {"Connected", "Disconnected"} => told' = told /\ connected' = connected
  BY <1>2, <1>3, <1>5 DEF g, s
<1>8. /\ pc'[t] = "send"
      /\ pc' \in [Flushers -> {"idle", "locked", "flush", "send", "sending"}]
      /\ \A u \in Flushers : u # t => pc'[u] = pc[u] /\ batch'[u] = batch[u]
      /\ batch'[t] = T /\ batch' \in [Flushers -> Seq(Event)]
  BY <1>1, <1>3, <1>4
<1>9. TypeOK'
  BY <1>1, <1>7, <1>8 DEF IInv, TypeOK
<1>10. StepInv'
  BY <1>1, <1>3, <1>8, FlusherIs DEF IInv, StepInv
<1>11. /\ \A h, r : In(T, h, r) => In(batch[t], h, r)
       /\ \A h, r : ~(h = g /\ r = s) => (In(batch[t], h, r) <=> In(T, h, r))
       /\ \A h : ~(h = g /\ s = "Connected") => (Led(batch[t], h) => Led(T, h))
  <2>1. \A h, r : e = Ev(h, r) <=> h = g /\ r = s
    BY <1>5, EventIs
  <2> QED BY <1>4, <2>1 DEF Unsent
<1>12. OneBatch'
  <2>1. \A h \in Handles, u \in Flushers : Has(batch'[u], h) => Has(batch[u], h)
    BY <1>8, <1>11 DEF Has
  <2> QED BY <1>1, <2>1 DEF IInv, OneBatch
<1>13. \A h, r : Sends(t, h, r) <=> e = Ev(h, r)
  BY <1>1, <1>6 DEF Sends, Ev
<1>14. \A h, r : ~Sends(t, h, r)'
  BY <1>8 DEF Sends
<1>15. \A h, r : \A u \in Flushers : u # t => (Sends(u, h, r)' <=> Sends(u, h, r))
  BY <1>8 DEF Sends
<1>16. ASSUME NEW h \in Handles \ crossed' PROVE HandleInv(h)'
  <2>1. h \in Handles \ crossed /\ HandleInv(h)
    BY <1>1 DEF IInv
  <2>2. CASE h # g
    <3>1. \A r : ~Sends(t, h, r)
      BY <1>5, <1>13, <2>2, EventIs
    <3>2. \A u \in Flushers, r \in Statuses : Sends(u, h, r)' <=> Sends(u, h, r)
      BY <1>14, <1>15, <3>1
    <3>3. \A u \in Flushers : /\ \A r \in Statuses : In(batch'[u], h, r) <=> In(batch[u], h, r)
                              /\ Led(batch[u], h) => Led(batch'[u], h)
      BY <1>8, <1>11, <2>2
    <3> QED BY <1>1, <1>7, <2>1, <2>2, <3>2, <3>3, Undisturbed
  <2>3. CASE h = g
    <3>1. /\ display' = display /\ queue' = queue /\ In(batch[t], h, s)
          /\ s = "Connected" => told'[h] = told[h] /\ h \in connected'
          /\ s = "Disconnected" => told'[h] = "Disconnected" /\ connected' = connected
          /\ s \notin {"Connected", "Disconnected"} => told'[h] = told[h] /\ connected' = connected
      BY <1>1, <1>5, <1>7, <2>3
    <3>2. /\ \A u \in Flushers : u # t => batch'[u] = batch[u]
          /\ \A r : In(batch'[t], h, r) => In(batch[t], h, r)
          /\ \A r : r # s => (In(batch[t], h, r) <=> In(batch'[t], h, r))
          /\ s # "Connected" /\ Led(batch[t], h) => Led(batch'[t], h)
      BY <1>8, <1>11, <2>3
    <3>3. \A r : Sends(t, h, r) <=> r = s
      BY <1>5, <1>13, <2>3, EventIs
    <3>4. ASSUME NEW u \in Flushers, u # t, NEW r \in Statuses
          PROVE  ~In(batch[u], h, r) /\ ~Sends(u, h, r) /\ ~Sends(u, h, r)'
      <4>1. Has(batch[t], h)
        BY <1>5, <2>3 DEF Has
      <4>2. ~Has(batch[u], h)
        BY <2>1, <3>4, <4>1 DEF IInv, OneBatch
      <4>3. ~In(batch[u], h, r)
        BY <4>2 DEF Has
      <4>4. ~Sends(u, h, r)
        BY <3>4, <4>3, SendsIn
      <4> QED BY <1>15, <3>4, <4>3, <4>4
    <3>5. s = "Connected" => display[h] # "none" /\ told[h] = "Connected"
      BY <2>1, <3>1, <3>3, StatusesAre DEF HandleInv, NoneInv, SetInv
    <3>6. s = "Disconnected" => /\ display[h] # "none" /\ display[h] # "bound"
                                /\ h \notin connected
      BY <2>1, <3>1, <3>3, StatusesAre DEF HandleInv, NoneInv, BoundInv, SetInv
    <3>7. NoneInv(h)'
      BY <2>1, <3>1, <3>2, <3>5, <3>6 DEF HandleInv, NoneInv
    <3>8. BoundInv(h)'
      BY <2>1, <3>1, <3>2, <3>5, <3>6 DEF HandleInv, BoundInv
    <3>9. GoneInv(h)'
      BY <2>1, <3>1, <3>2 DEF HandleInv, GoneInv
    <3>10. SetInv(h)'
      <4>1. \A u \in Flushers, r \in Statuses : ~Sends(u, h, r)'
        BY <1>14, <3>4
      <4>2. h \in connected' <=> told'[h] = "Connected"
        <5>1. CASE s = "Connected"
          BY <3>1, <3>5, <5>1
        <5>2. CASE s = "Disconnected"
          BY <3>1, <3>6, <5>2
        <5>3. CASE s \notin {"Connected", "Disconnected"}
          <6>1. \A u \in Flushers : ~Sends(u, h, "Connected") /\ ~Sends(u, h, "Disconnected")
            BY <3>3, <3>4, <5>3, StatusesAre
          <6> QED BY <2>1, <3>1, <5>3, <6>1 DEF HandleInv, SetInv
        <5> QED BY <5>1, <5>2, <5>3
      <4> QED BY <4>1, <4>2, StatusesAre DEF SetInv
    <3>11. ErrorInv(h)'
      <4>1. CASE s = "Connected"
        BY <3>1, <3>5, <4>1 DEF ErrorInv
      <4>2. CASE s = "Disconnected"
        <5>1. display \in [Handles -> {"none", "bound", "gone"}]
          BY DEF IInv, TypeOK
        <5>2. display[h] = "gone"
          BY <2>1, <3>6, <4>2, <5>1
        <5>3. ~In(queue, h, "LinkTrainingFailed") /\ ~In(batch[t], h, "LinkTrainingFailed")
          BY <2>1, <3>1, <4>2, <5>2 DEF HandleInv, GoneInv
        <5>4. \A u \in Flushers : ~In(batch'[u], h, "LinkTrainingFailed")
          BY <3>2, <3>4, <5>3, StatusesAre
        <5> QED BY <3>1, <5>3, <5>4, NothingIn DEF ErrorInv
      <4>3. CASE s \notin {"Connected", "Disconnected"}
        BY <2>1, <3>1, <3>2, <4>3 DEF HandleInv, ErrorInv
      <4> QED BY <4>1, <4>2, <4>3
    <3> QED BY <3>7, <3>8, <3>9, <3>10, <3>11 DEF HandleInv
  <2> QED BY <2>2, <2>3
<1> QED BY <1>9, <1>10, <1>12, <1>16 DEF IInv

-----------------------------------------------------------------------------
(* The theorems.                                                           *)

\* It holds at the start ...
LEMMA InitIInv == Init => IInv
<1> SUFFICES ASSUME Init PROVE IInv
  OBVIOUS
<1>1. /\ display = [h \in Handles |-> "none"] /\ queue = <<>> /\ lock = NoThread
      /\ callback = FALSE /\ pc = [t \in Flushers |-> "idle"]
      /\ batch = [t \in Flushers |-> <<>>] /\ connected = {}
      /\ told = [h \in Handles |-> "none"] /\ scheduled = 0 /\ crossed = {}
  BY DEF Init
<1>2. TypeOK
  <2>1. /\ display \in [Handles -> {"none", "bound", "gone"}]
        /\ pc \in [Flushers -> {"idle", "locked", "flush", "send", "sending"}]
        /\ told \in [Handles -> {"none", "Connected", "Disconnected"}]
    BY <1>1
  <2>2. <<>> \in Seq(Event) /\ scheduled \in 0 .. MaxEvents
    BY <1>1, ConstantsAssumption
  <2>3. batch \in [Flushers -> Seq(Event)] /\ queue \in Seq(Event)
    BY <1>1, <2>2
  <2> QED BY <1>1, <2>1, <2>2, <2>3 DEF TypeOK
<1>3. StepInv
  BY <1>1, FlusherIs DEF StepInv
<1>4. /\ \A h, s : ~In(queue, h, s) /\ \A t \in Flushers : ~In(batch[t], h, s)
      /\ \A h : Led(queue, h) /\ \A t \in Flushers : Led(batch[t], h)
  BY <1>1, NothingIn
<1>5. OneBatch
  BY <1>4 DEF OneBatch, Has
<1>6. ASSUME NEW h \in Handles PROVE HandleInv(h)
  <2>1. display[h] = "none" /\ told[h] = "none" /\ h \notin connected
    BY <1>1
  <2>2. \A s : \A t \in Flushers : ~Sends(t, h, s)
    BY <1>1 DEF Sends
  <2>3. NoneInv(h) /\ BoundInv(h) /\ GoneInv(h)
    BY <1>4, <2>1 DEF NoneInv, BoundInv, GoneInv
  <2>4. SetInv(h) /\ ErrorInv(h)
    BY <1>4, <2>1, <2>2 DEF SetInv, ErrorInv
  <2> QED BY <2>3, <2>4 DEF HandleInv
<1> QED BY <1>2, <1>3, <1>5, <1>6 DEF IInv

\* ... and every step keeps it.
LEMMA NextIInv == IInv /\ [Next]_vars => IInv'
<1> SUFFICES ASSUME IInv, [Next]_vars PROVE IInv'
  OBVIOUS
<1>1. CASE RegisterCallback
  BY <1>1, RegisterStep
<1>2. ASSUME NEW t \in Threads,
             \/ Lock(t) \/ BindDisplay(t) \/ UnbindDisplay(t) \/ ReplaceDisplay(t)
             \/ NotifyDisplayLinkStatus(t) \/ NotifyIncompatibleCable(t)
      PROVE  IInv'
  BY <1>2, LockStep, HotplugStep
<1>3. ASSUME NEW t \in Flushers, Goes(t) PROVE IInv'
  <2>1. CASE Unlock(t)
    BY <2>1, UnlockStep
  <2>2. CASE Flush(t)
    BY <2>2, FlushHeard, FlushUnheard
  <2>3. CASE SendBegin(t)
    BY <2>3, SendBeginStep
  <2>4. CASE SendEnd(t)
    BY <2>4, SendEndStep
  <2>5. CASE FlushDone(t)
    BY <2>5, FlushDoneStep
  <2> QED BY <1>3, <2>1, <2>2, <2>3, <2>4, <2>5 DEF Goes
<1>4. CASE UNCHANGED vars
  <2>1. TypeOK' /\ StepInv' /\ OneBatch'
    BY <1>4 DEF vars, IInv, TypeOK, StepInv, OneBatch
  <2>2. \A t, h, s : Sends(t, h, s)' <=> Sends(t, h, s)
    BY <1>4 DEF vars, Sends
  <2>3. ASSUME NEW h \in Handles \ crossed' PROVE HandleInv(h)'
    BY <1>4, <2>2, Undisturbed DEF vars, IInv
  <2> QED BY <2>1, <2>3 DEF IInv
<1> QED BY <1>1, <1>2, <1>3, <1>4 DEF Next

\* IInv is an invariant: what the client was told, what is queued and what is
\* being sent of a display fit together, in all interleavings of the threads.
THEOREM Inductive == Spec => []IInv
BY InitIInv, NextIInv, PTL DEF Spec

\* TypeOK, of which Tail of a batch needs that a batch being sent is not empty.
THEOREM TypeCorrect == Spec => []TypeOK
<1>1. IInv => TypeOK
  BY DEF IInv
<1> QED BY <1>1, Inductive, PTL

\* ClientKnows: merged, dropped and resorted events leave the client, and
\* connected_displays_, with the displays there are.
THEOREM ClientKnowsCorrect == Spec => []ClientKnows
<1>1. IInv => ClientKnows
  <2> SUFFICES ASSUME IInv, Quiet, NEW h \in Handles \ crossed
               PROVE  told[h] = Expected(h) /\ (h \in connected <=> told[h] = "Connected")
    BY DEF ClientKnows
  <2>1. /\ \A s : ~In(queue, h, s)
        /\ \A s : \A t \in Flushers : ~In(batch[t], h, s) /\ ~Sends(t, h, s)
    BY NothingIn DEF IInv, StepInv, Quiet, Sends
  <2>2. HandleInv(h)
    BY DEF IInv
  <2>3. h \in connected <=> told[h] = "Connected"
    BY <2>1, <2>2 DEF HandleInv, SetInv
  <2>4. CASE display[h] = "none"
    BY <2>2, <2>3, <2>4 DEF HandleInv, NoneInv, Expected
  <2>5. CASE display[h] = "bound"
    BY <2>1, <2>2, <2>3, <2>5 DEF HandleInv, BoundInv, Expected
  <2>6. CASE display[h] = "gone"
    BY <2>1, <2>2, <2>3, <2>6 DEF HandleInv, GoneInv, Expected
  <2>7. display[h] \in {"none", "bound", "gone"}
    BY DEF IInv, TypeOK
  <2> QED BY <2>4, <2>5, <2>6, <2>7
<1> QED BY <1>1, Inductive, PTL

\* ErrorsOfConnected: neither the two passes nor the threads let a link error
\* overtake the connection of its display.
THEOREM ErrorsOfConnectedCorrect == Spec => []ErrorsOfConnected
<1>1. IInv => ErrorsOfConnected
  <2> SUFFICES ASSUME IInv, NEW t \in Flushers, batch[t] # <<>>,
                      Head(batch[t]).status = "LinkTrainingFailed",
                      Head(batch[t]).handle \notin crossed
               PROVE  told[Head(batch[t]).handle] = "Connected"
    BY DEF ErrorsOfConnected
  <2>1. batch[t] \in Seq(Event)
    BY DEF IInv, TypeOK
  <2> DEFINE e == Head(batch[t])
             T == Tail(batch[t])
  <2>2. e \in Event /\ Unsent(batch[t], e, T)
    BY <2>1, TailIs
  <2>3. e.status = "LinkTrainingFailed" /\ e.handle \notin crossed
    OBVIOUS
  <2> HIDE DEF e, T
  <2>4. e = Ev(e.handle, "LinkTrainingFailed") /\ e.handle \in Handles
    BY <2>2, <2>3, EventIs
  <2>5. ~Led(batch[t], e.handle)
    BY <2>2, <2>4 DEF Unsent
  <2>6. told[e.handle] = "Connected"
    BY <2>3, <2>4, <2>5 DEF IInv, HandleInv, ErrorInv
  <2> QED BY <2>6 DEF e
<1> QED BY <1>1, Inductive, PTL

-----------------------------------------------------------------------------
(* HdcpController.                                                         *)

(* A commit under way asks for what the state it was built in calls for:   *)
(* nobody but the main thread leaves kDesired or kRetry.                   *)
CommitInv ==
  /\ mpc = "commit" => \/ state = "Desired" /\ mtype = "type1"
                       \/ state = "Retry" /\ mtype = "type0"
  /\ mpc \in {"join", "gone"} => state = "ThreadExit"

(* was_retry_ counts the attempts while one is pending.                    *)
AttemptInv ==
  /\ state = "Desired" => tried = {}
  /\ state = "Retry" => tried = {"type1"}
  /\ state = "Requested" /\ ~wasRetry => tried = {"type1"} /\ asked = "type1"
  /\ state = "Requested" /\ wasRetry => tried = Types /\ asked = "type0"
  /\ state = "Infeasible" => tried = Types
  /\ state = "Enabled" => enabled = asked

(* Nothing is under way that could tell a client otherwise after it was    *)
(* told that HDCP is disabled, unless it was under way already.            *)
TerminateInv ==
  /\ mpc = "notify" => state \in {"Enabled", "Infeasible"}
  /\ state = "Undesired" /\ ~late => hpc # "notify" /\ level \in {"unset", "none"}

HdcpIInv == HdcpTypeOK /\ CommitInv /\ AttemptInv /\ TerminateInv

\* It holds at the start.
LEMMA HdcpInitInv == HdcpInit => HdcpIInv
  BY DEF HdcpInit, HdcpIInv, HdcpTypeOK, CommitInv, AttemptInv, TerminateInv,
         Types, Levels

USE DEF HdcpIInv, HdcpTypeOK, CommitInv, AttemptInv, TerminateInv, Types, Levels

(* The operations of the main thread keep the invariant.                   *)
LEMMA HdcpMain ==
  HdcpIInv /\ (\/ StartNotifies \/ StartDesired \/ BuildFrame
               \/ StopHdcp \/ Destroy \/ MainEnds)
    => HdcpIInv'
<1> SUFFICES ASSUME HdcpIInv,
                    \/ StartNotifies \/ StartDesired \/ BuildFrame
                    \/ StopHdcp \/ Destroy \/ MainEnds
             PROVE  HdcpIInv'
  OBVIOUS
<1>1. CASE StartNotifies
  BY <1>1 DEF StartNotifies, controller, helper, kernel, client
<1>2. CASE StartDesired
  BY <1>2 DEF StartDesired, Notified, main, kernel
<1>3. CASE BuildFrame
  BY <1>3 DEF BuildFrame, controller, helper, kernel, client
<1>4. CASE StopHdcp
  <2> USE <1>4 DEF StopHdcp, SaysDisabled, main, kernel
  <2>1. late' \in BOOLEAN /\ (~late' => hpc # "notify")
    OBVIOUS
  <2>2. /\ state' = "Undesired" /\ enabled' = "none" /\ level' = "none" /\ mpc' = "idle"
        /\ hpc' \in {hpc, "top"}
        /\ UNCHANGED <<wasRetry, due, cpEnabled, hlevel, mpc, mlevel, mtype, cp, asked,
                       refresh, tried>>
    BY DEF Notified
  <2>3. HdcpTypeOK'
    <3> HIDE <1>4 DEF StopHdcp
    <3> QED
      BY <2>1, <2>2
  <2>4. CommitInv' /\ AttemptInv' /\ TerminateInv'
    <3> HIDE <1>4 DEF StopHdcp
    <3> QED
      BY <2>1, <2>2
  <2> QED
    BY <2>3, <2>4
<1>5. CASE Destroy
  BY <1>5 DEF Destroy, Notified, kernel, client
<1>6. CASE StartNotify
  BY <1>6 DEF StartNotify, controller, helper, kernel
<1>7. CASE CommitFrame
  <2>1. \/ state = "Desired" /\ mtype = "type1"
        \/ state = "Retry" /\ mtype = "type0"
    BY <1>7 DEF CommitFrame
  <2>2. /\ wasRetry' = (state = "Retry") /\ state' = "Requested" /\ due' = FALSE
        /\ hpc' = Notified /\ enabled' = enabled
    BY <1>7, <2>1 DEF CommitFrame, Requested, WasRetry
  <2>3. asked' = mtype /\ tried' = tried \cup {mtype} /\ cp' \in BOOLEAN
    BY <1>7 DEF CommitFrame
  <2>4. CommitInv' /\ AttemptInv' /\ TerminateInv'
    BY <1>7, <2>1, <2>2, <2>3 DEF CommitFrame
  <2>5. wasRetry' \in BOOLEAN
    BY <2>2
  <2>6. /\ state' = "Requested" /\ due' \in BOOLEAN /\ enabled' \in Levels
        /\ hpc' \in {"top", "wait", "waituntil", "early", "query", "decide",
                     "notify", "retryframe", "done"}
    BY <2>2 DEF Notified
  <2>7. asked' \in Levels /\ tried' \subseteq Types
    BY <2>1, <2>3
  <2>8. /\ mpc' = "idle" /\ mtype' = "none"
        /\ UNCHANGED <<cpEnabled, hlevel, mlevel, level, refresh, late>>
    BY <1>7 DEF CommitFrame
  <2>9. HdcpTypeOK'
    BY <2>3, <2>5, <2>6, <2>7, <2>8
  <2> QED
    BY <2>4, <2>9
<1>8. CASE CommitFails
  BY <1>8 DEF CommitFails, controller, helper, kernel, client
<1>9. CASE Join
  BY <1>9 DEF Join, controller, helper, kernel, client
<1> QED
  BY <1>1, <1>2, <1>3, <1>4, <1>5, <1>6, <1>7, <1>8, <1>9 DEF MainEnds

(* So do the thread, the clock and the kernel, which never enter or leave  *)
(* kDesired, and leave kRetry to the main thread.                          *)
LEMMA HdcpOthers ==
  HdcpIInv /\ (HelperStep \/ Expire \/ Authenticate) => HdcpIInv'
<1> SUFFICES ASSUME HdcpIInv, HelperStep \/ Expire \/ Authenticate
             PROVE  HdcpIInv'
  OBVIOUS
<1>1. CASE HelperTop
  BY <1>1 DEF HelperTop, controller, main, kernel, client
<1>2. CASE HelperWaited
  BY <1>2 DEF HelperWaited, controller, main, kernel, client
<1>3. CASE EarlyCheck
  BY <1>3 DEF EarlyCheck, controller, main, kernel, client
<1>4. CASE QueryContentProtection
  BY <1>4 DEF QueryContentProtection, controller, main, kernel, client
<1>5. CASE Decide
  <2> USE <1>5 DEF Decide, main, kernel
  <2>1. CASE DecideNothing
    BY <2>1 DEF DecideNothing, controller
  <2>2. CASE DecideEnabled
    <3>1. enabled' = asked
      BY <2>2 DEF DecideEnabled
    <3>2. enabled' \in Levels /\ hlevel' \in Levels
      BY <2>2 DEF DecideEnabled
    <3>3. HdcpTypeOK'
      BY <2>2, <3>2 DEF DecideEnabled
    <3>4. CommitInv' /\ AttemptInv' /\ TerminateInv'
      BY <2>2, <3>1 DEF DecideEnabled
    <3> QED
      BY <3>3, <3>4
  <2>3. CASE DecideRetry
    <3>1. tried' = {"type1"}
      BY <2>3 DEF DecideRetry
    <3>2. HdcpTypeOK'
      <4>1. wasRetry' \in BOOLEAN /\ refresh' \in BOOLEAN
        BY <2>3 DEF DecideRetry
      <4> QED
        BY <4>1, <2>3 DEF DecideRetry, RetryFrame
    <3>3. CommitInv' /\ AttemptInv' /\ TerminateInv'
      BY <2>3, <3>1 DEF DecideRetry
    <3> QED
      BY <3>2, <3>3
  <2>4. CASE DecideInfeasible
    <3>1. tried' = Types
      BY <2>4 DEF DecideInfeasible
    <3>2. HdcpTypeOK'
      <4>1. wasRetry' \in BOOLEAN /\ refresh' \in BOOLEAN
        BY <2>4 DEF DecideInfeasible
      <4> QED
        BY <4>1, <2>4 DEF DecideInfeasible
    <3>3. CommitInv' /\ AttemptInv' /\ TerminateInv'
      BY <2>4, <3>1 DEF DecideInfeasible
    <3> QED
      BY <3>2, <3>3
  <2> QED
    BY <2>1, <2>2, <2>3, <2>4
<1>6. CASE NotifyStatus
  BY <1>6 DEF NotifyStatus, controller, main, kernel
<1>7. CASE TriggerRetryFrame
  BY <1>7 DEF TriggerRetryFrame, controller, main, kernel
<1>8. CASE Expire
  BY <1>8 DEF Expire, helper, main, kernel, client
<1>9. CASE Authenticate
  BY <1>9 DEF Authenticate, controller, helper, main, client
<1> QED
  BY <1>1, <1>2, <1>3, <1>4, <1>5, <1>6, <1>7, <1>8, <1>9 DEF HelperStep

\* So every step keeps it.
LEMMA HdcpStepInv == HdcpIInv /\ [HdcpNext]_hdcpVars => HdcpIInv'
<1> SUFFICES ASSUME HdcpIInv, [HdcpNext]_hdcpVars
             PROVE  HdcpIInv'
  OBVIOUS
<1>1. CASE UNCHANGED hdcpVars
  BY <1>1 DEF hdcpVars, controller, helper, main, kernel, client
<1>2. CASE HdcpNext
  BY <1>2, HdcpMain, HdcpOthers DEF HdcpNext
<1> QED
  BY <1>1, <1>2

HIDE DEF HdcpIInv, HdcpTypeOK, CommitInv, AttemptInv, TerminateInv, Types, Levels

\* It is an invariant.
LEMMA HdcpInductive == HdcpSpec => []HdcpIInv
  BY HdcpInitInv, HdcpStepInv, PTL DEF HdcpSpec

(* Every variable of the negotiation keeps to its type.                    *)
THEOREM HdcpTypeCorrect == HdcpSpec => []HdcpTypeOK
<1>1. HdcpIInv => HdcpTypeOK
  BY DEF HdcpIInv
<1> QED
  BY <1>1, HdcpInductive, PTL

(* The level reported for an enabled link is the content type the kernel   *)
(* was asked for, whatever the order of the thread's queries and the main  *)
(* thread's commits and restarts (SetContentProtectionStatus, Requested).  *)
THEOREM EnabledAsAskedCorrect == HdcpSpec => []EnabledAsAsked
<1>1. HdcpIInv => EnabledAsAsked
  BY DEF HdcpIInv, AttemptInv, EnabledAsAsked
<1> QED
  BY <1>1, HdcpInductive, PTL

(* A link is given up as infeasible only after both content types were     *)
(* tried since the negotiation was last started.                           *)
THEOREM InfeasibleAfterBothCorrect == HdcpSpec => []InfeasibleAfterBoth
<1>1. HdcpIInv => InfeasibleAfterBoth
  BY DEF HdcpIInv, AttemptInv, InfeasibleAfterBoth
<1> QED
  BY <1>1, HdcpInductive, PTL

(* The fall-back to type 0 is the last commit of a negotiation.            *)
THEOREM RetryEndsWithType0Correct == HdcpSpec => []RetryEndsWithType0
<1>1. HdcpIInv => RetryEndsWithType0
  BY DEF HdcpIInv, AttemptInv, RetryEndsWithType0
<1> QED
  BY <1>1, HdcpInductive, PTL

(* A client that was told HDCP is disabled is not told the opposite, by    *)
(* either thread, unless the thread had a success left to tell.            *)
THEOREM TerminatedClientKnowsCorrect == HdcpSpec => []TerminatedClientKnows
<1>1. HdcpIInv => TerminatedClientKnows
  BY DEF HdcpIInv, TerminateInv, TerminatedClientKnows
<1> QED
  BY <1>1, HdcpInductive, PTL
=============================================================================
