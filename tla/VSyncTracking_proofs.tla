----------------------- MODULE VSyncTracking_proofs -------------------------
(***************************************************************************)
(* VSyncTracking: vsyncs in order, in the phase of the current mode, and   *)
(* at most one after they were turned off, for any periods and any length  *)
(* of the run.                                                             *)
(***************************************************************************)
EXTENDS VSyncTracking, TLAPS

-----------------------------------------------------------------------------
(* The inductive invariant.                                                *)

(* A vsync about to be told after vsyncs were turned off is the first.     *)
CallbackInv ==
  /\ late <= 1 /\ (callback => late = 0)
  /\ wpc = "call" /\ wcallback /\ ~callback => late = 0

(* Nothing that was recorded lies in the future, a wait ends after the     *)
(* vsync told last, and only a wait that was under way when the period     *)
(* changed ends before the change.                                         *)
TimeInv ==
  /\ last # NoTime => last <= now
  /\ since <= now
  /\ committed # NoTime => since <= committed /\ committed <= now
  /\ fence # NoTime => since <= fence /\ fence <= now
  /\ told <= now
  /\ wpc = "vblank" => told <= wfrom /\ wfrom <= now
  /\ wpc = "nanosleep" => told < wtime
  /\ wpc \in {"store", "call"} => told < wtime /\ wtime <= now
  /\ wpc \in {"nanosleep", "store"} /\ ~crossed => since <= wtime
  /\ PhaseReset

IInv == TypeOK /\ CallbackInv /\ TimeInv

-----------------------------------------------------------------------------
(* GetPhasedVSync answers a time after the one it was asked for.           *)
LEMMA NextMultiple ==
  ASSUME NEW a \in Nat, NEW f \in Nat \ {0}
  PROVE  /\ f * (a \div f + 1) \in Nat
         /\ a < f * (a \div f + 1)
<1>1. a \div f \in Nat
  OBVIOUS
<1>2. f * (a \div f + 1) \in Nat
  BY <1>1
<1>3. a < f * (a \div f + 1)
  OBVIOUS
<1> QED
  BY <1>2, <1>3

LEMMA PhasedVSyncLater ==
  ASSUME NEW frame \in Nat \ {0}, NEW current \in Nat, NEW from \in Nat \cup {NoTime},
         from <= current
  PROVE  PhasedVSync(frame, current, from) \in Nat /\ current < PhasedVSync(frame, current, from)
<1>1. CASE from = NoTime
  BY <1>1 DEF PhasedVSync
<1>2. CASE from # NoTime
  <2>1. current - from \in Nat
    BY <1>2
  <2>2. /\ frame * ((current - from) \div frame + 1) \in Nat
        /\ current - from < frame * ((current - from) \div frame + 1)
    BY <2>1, NextMultiple
  <2>3. PhasedVSync(frame, current, from) = frame * ((current - from) \div frame + 1) + from
    BY <1>2 DEF PhasedVSync
  <2> QED
    BY <1>2, <2>2, <2>3
<1> QED
  BY <1>1, <1>2

LEMMA TypeFacts ==
  ASSUME TypeOK
  PROVE  /\ now \in Nat /\ now <= MaxTime /\ since \in Nat /\ wfrom \in Nat /\ wtime \in Nat
         /\ period \in Nat \ {0}
         /\ last \in Nat \cup {NoTime} /\ fence \in Nat \cup {NoTime}
         /\ committed \in Nat \cup {NoTime}
         /\ told \in Nat \cup {NoTime} /\ late \in 0 .. 2
BY ConstantsAssumption DEF TypeOK, Times

(* What GetPhasedVSync and GetNextVsyncTimestamp do to last_timestamp_.    *)
LEMMA PresentTimesFacts ==
  ASSUME TypeOK, TimeInv, NEW t \in PresentTimes
  PROVE  /\ t \in Times \cup {NoTime}
         /\ t # NoTime => t <= now
         /\ t # last => t >= since
<1>1. t = last \/ (fence # NoTime /\ t \in fence .. now)
  BY DEF PresentTimes
<1>2. CASE t = last
  BY <1>2 DEF TypeOK, TimeInv
<1>3. CASE fence # NoTime /\ t \in fence .. now
  <2>1. t \in Nat /\ t <= now /\ t >= since
    BY <1>3, TypeFacts DEF TimeInv, NoTime
  <2> QED
    BY <2>1, TypeFacts, ConstantsAssumption DEF Times
<1> QED
  BY <1>1, <1>2, <1>3

LEMMA InitIInv == Init => IInv
<1> SUFFICES ASSUME Init PROVE IInv
  OBVIOUS
<1> USE DEF Init
<1>1. TypeOK
  <2>1. /\ enabled \in BOOLEAN /\ exiting \in BOOLEAN /\ tracking \in BOOLEAN
        /\ callback \in BOOLEAN /\ wcallback \in BOOLEAN /\ crossed \in BOOLEAN
        /\ stale \in BOOLEAN
    OBVIOUS
  <2>2. /\ now \in Times /\ wfrom \in Times /\ since \in Times
        /\ wtime \in Nat /\ late \in 0 .. 2
    BY ConstantsAssumption DEF Times
  <2>3. /\ last = NoTime /\ fence = NoTime /\ told = NoTime /\ committed = NoTime
        /\ period = DefaultPeriod /\ wpc = "top"
    OBVIOUS
  <2> QED
    BY <2>1, <2>2, <2>3 DEF TypeOK
<1>2. CallbackInv
  BY DEF CallbackInv
<1>3. TimeInv
  BY DEF TimeInv, PhaseReset, NoTime
<1> QED
  BY <1>1, <1>2, <1>3 DEF IInv

-----------------------------------------------------------------------------
(* The critical sections of the main thread keep it.                       *)
LEMMA MainKeepsIInv ==
  IInv /\ (Call \/ MainEnds) => IInv'
<1> SUFFICES ASSUME IInv, Call \/ MainEnds
             PROVE  IInv'
  OBVIOUS
<1> USE DEF IInv, TypeOK, CallbackInv, TimeInv, PhaseReset, NoTime
<1>0. /\ now \in Nat /\ since \in Nat /\ wfrom \in Nat /\ wtime \in Nat
      /\ last \in Nat \cup {NoTime} /\ fence \in Nat \cup {NoTime}
      /\ committed \in Nat \cup {NoTime}
      /\ told \in Nat \cup {NoTime} /\ late \in 0 .. 2
  BY TypeFacts
<1>1. CASE Call
  <2>1. committed' = NoTime /\ UNCHANGED <<now, worker, thread, history>>
    BY <1>1 DEF Call
  <2> QED
    BY <1>0, <2>1 DEF worker, thread, history
<1>2. CASE CallbackOn
  <2>1. callback' \in BOOLEAN
    BY <1>2 DEF CallbackOn
  <2>2. late' = 0
    BY <1>2 DEF CallbackOn
  <2>3. UNCHANGED <<now, enabled, exiting, last, period, tracking, fence, thread,
                    committed, told, since, crossed, stale>>
    BY <1>2 DEF CallbackOn
  <2> QED
    BY <2>1, <2>2, <2>3 DEF thread
<1>3. CASE CallbackOff
  <2>1. callback' \in BOOLEAN
    BY <1>3 DEF CallbackOff
  <2>2. late' = 0
    BY <1>3 DEF CallbackOff
  <2>3. UNCHANGED <<now, enabled, exiting, last, period, tracking, fence, thread,
                    committed, told, since, crossed, stale>>
    BY <1>3 DEF CallbackOff
  <2> QED
    BY <2>1, <2>2, <2>3 DEF thread
<1>4. ASSUME NEW on \in BOOLEAN, Tracking(on)
      PROVE  IInv'
  <2>1. tracking' \in BOOLEAN
    BY <1>4 DEF Tracking
  <2>2. UNCHANGED <<now, enabled, exiting, last, period, callback, fence, thread,
                    committed, history>>
    BY <1>4 DEF Tracking
  <2> QED
    BY <2>1, <2>2 DEF thread, history
<1>5. CASE UpdateVSyncControl
  <2>1. enabled' \in BOOLEAN
    BY <1>5 DEF UpdateVSyncControl
  <2> QED
    BY <1>5, <2>1 DEF UpdateVSyncControl, history, Notified
<1>6. CASE SetVsyncPeriodNs
  <2>1. crossed' \in BOOLEAN
    BY <1>6 DEF SetVsyncPeriodNs
  <2>2. crossed' = (wpc \in Waits)
    BY <1>6 DEF SetVsyncPeriodNs
  <2>3. wpc \in {"nanosleep", "store"} => crossed'
    BY <2>2 DEF Waits
  <2>4. /\ period' \in Periods /\ last' = NoTime /\ fence' = NoTime
        /\ since' = (IF committed = NoTime THEN now ELSE committed) /\ stale' \in BOOLEAN
        /\ UNCHANGED <<now, enabled, exiting, tracking, callback, thread, committed, told,
                       late>>
    BY <1>6 DEF SetVsyncPeriodNs, TimestampReset
  <2> QED
    BY <1>0, <2>1, <2>3, <2>4 DEF thread
<1>7. CASE GetNextVsyncTimestamp
  <2>1. stale' \in BOOLEAN /\ (last' = last => stale' = stale)
    BY <1>7 DEF GetNextVsyncTimestamp
  <2>2. /\ last' \in Times \cup {NoTime}
        /\ last' # NoTime => last' <= now
        /\ last' # last => last' >= since
    BY <1>7, PresentTimesFacts DEF GetNextVsyncTimestamp
  <2>3. last' # NoTime /\ last' < since => stale'
    BY <1>0, <2>1, <2>2
  <2> QED
    BY <1>7, <2>1, <2>2, <2>3 DEF GetNextVsyncTimestamp, thread
<1>8. CASE AddLastPresentFence
  BY <1>0, <1>8 DEF AddLastPresentFence, thread, history
<1>9. CASE StopThread
  <2>1. exiting' \in BOOLEAN /\ enabled' \in BOOLEAN
    BY <1>9 DEF StopThread
  <2> QED
    BY <1>9, <2>1 DEF StopThread, history, Notified
<1>10. CASE Join
  BY <1>10 DEF Join, worker, thread, history
<1>11. CASE Commit
  <2>1. committed' = now /\ UNCHANGED <<now, worker, thread, history>>
    BY <1>11 DEF Commit
  <2> QED
    BY <1>0, <2>1 DEF worker, thread, history
<1> QED
  BY <1>1, <1>2, <1>3, <1>4, <1>5, <1>6, <1>7, <1>8, <1>9, <1>10, <1>11 DEF MainEnds

(* So do the thread and the clock.                                         *)
LEMMA WorkerKeepsIInv ==
  IInv /\ (WorkerStep \/ Tick) => IInv'
<1> SUFFICES ASSUME IInv, WorkerStep \/ Tick
             PROVE  IInv'
  OBVIOUS
<1> USE DEF IInv, TypeOK, CallbackInv, TimeInv, PhaseReset, NoTime
<1>0. /\ now \in Nat /\ since \in Nat /\ wfrom \in Nat /\ wtime \in Nat
      /\ period \in Nat \ {0}
      /\ last \in Nat \cup {NoTime} /\ fence \in Nat \cup {NoTime}
      /\ committed \in Nat \cup {NoTime}
      /\ told \in Nat \cup {NoTime} /\ late \in 0 .. 2
  BY TypeFacts
<1>1. CASE Top
  <2>1. crossed' \in BOOLEAN /\ wpc' \in {"done", "sleep", "vblank"}
    BY <1>1 DEF Top, Goto
  <2>2. wpc' = "vblank" => wfrom' = now
    BY <1>1 DEF Top, Goto
  <2>3. wfrom' \in Times
    BY <1>1 DEF Top
  <2>4. UNCHANGED <<now, worker, wtime, wcallback, script, committed, told, late, since, stale>>
    BY <1>1 DEF Top
  <2> QED
    BY <1>0, <2>1, <2>2, <2>3, <2>4 DEF worker, Waits
<1>2. CASE WaitVBlank
  <2>1. /\ wpc' \in {"store", "top", "synthetic"} /\ wfrom' = 0
        /\ wpc' = "store" => wtime' = now /\ wfrom < now
        /\ wtime' \in {now, wtime}
    BY <1>2 DEF WaitVBlank, Goto
  <2>2. UNCHANGED <<now, worker, wcallback, script, committed, history>>
    BY <1>2 DEF WaitVBlank
  <2>3. wfrom' \in Times
    BY <2>1, ConstantsAssumption DEF Times
  <2>4. TypeOK'
    BY <1>0, <2>1, <2>2, <2>3 DEF worker, history, Waits
  <2>5. CallbackInv'
    BY <2>1, <2>2 DEF worker, history
  <2>6. told <= wfrom
    BY <1>2 DEF WaitVBlank
  <2>7. TimeInv'
    BY <1>0, <2>1, <2>2, <2>6 DEF worker, history
  <2> QED
    BY <2>4, <2>5, <2>7
<1>3. CASE SyntheticWaitVBlank
  <2>1. stale' \in BOOLEAN /\ (last' = last => stale' = stale)
    BY <1>3 DEF SyntheticWaitVBlank
  <2>2. /\ last' \in Times \cup {NoTime}
        /\ last' # NoTime => last' <= now
        /\ last' # last => last' >= since
    BY <1>3, PresentTimesFacts DEF SyntheticWaitVBlank
  <2>3. last' # NoTime /\ last' < since => stale'
    BY <1>0, <2>1, <2>2
  <2>4. last' \in Nat \cup {NoTime} /\ last' <= now
    BY <1>0, <2>2 DEF Times, NoTime
  <2>5. wtime' \in Nat /\ now < wtime'
    BY <1>0, <1>3, <2>4, PhasedVSyncLater DEF SyntheticWaitVBlank
  <2>6. told < wtime' /\ since <= wtime'
    BY <1>0, <2>5 DEF NoTime
  <2> QED
    BY <1>3, <2>1, <2>2, <2>3, <2>5, <2>6 DEF SyntheticWaitVBlank, Goto, Waits
<1>4. CASE NanosleepDone
  BY <1>0, <1>4 DEF NanosleepDone, Goto, worker, history, Waits
<1>5. CASE Store
  <2>1. CASE enabled
    <3>1. wcallback' \in BOOLEAN /\ wcallback' = callback /\ stale' = crossed
      BY <1>5, <2>1 DEF Store, CallbackTaken
    <3>2. wtime \in Times
      BY <1>0, <1>5, <2>1, ConstantsAssumption DEF Store, Times
    <3> QED
      BY <1>0, <1>5, <2>1, <3>1, <3>2 DEF Store, Goto, Waits
  <2>2. CASE ~enabled
    BY <1>0, <1>5, <2>2 DEF Store, Goto
  <2> QED
    BY <2>1, <2>2
<1>6. CASE CallBack
  <2>1. CASE wcallback
    <3>1. wtime \in Times
      BY <1>0, <1>6, ConstantsAssumption DEF CallBack, Times
    <3>2. late' \in 0 .. 2 /\ late' <= 1 /\ (callback => late' = 0)
      BY <1>0, <1>6, <2>1 DEF CallBack
    <3> QED
      BY <1>0, <1>6, <2>1, <3>1, <3>2 DEF CallBack, Goto, worker
  <2>2. CASE ~wcallback
    BY <1>0, <1>6, <2>2 DEF CallBack, Goto, worker
  <2> QED
    BY <2>1, <2>2
<1>7. CASE Tick
  BY <1>0, <1>7, ConstantsAssumption DEF Tick, worker, thread, history, Times
<1> QED
  BY <1>1, <1>2, <1>3, <1>4, <1>5, <1>6, <1>7 DEF WorkerStep

LEMMA StepKeepsIInv == IInv /\ [Next]_vars => IInv'
<1>1. IInv /\ UNCHANGED vars => IInv'
  BY DEF IInv, TypeOK, CallbackInv, TimeInv, PhaseReset, vars, worker, thread, history
<1> QED
  BY <1>1, MainKeepsIInv, WorkerKeepsIInv DEF Next

-----------------------------------------------------------------------------
LEMMA InvariantCorrect == Spec => []IInv
BY InitIInv, StepKeepsIInv, PTL DEF Spec

(* Types hold at any time.                                                 *)
THEOREM TypeCorrect == Spec => []TypeOK
<1>1. IInv => TypeOK
  BY DEF IInv
<1> QED
  BY <1>1, InvariantCorrect, PTL

(* At most one vsync reaches the client after it turned them off: the      *)
(* thread copies callback_ anew for every vsync.                           *)
THEOREM CallbackStopsCorrect == Spec => []CallbackStops
<1>1. IInv => CallbackStops
  BY DEF IInv, CallbackInv, CallbackStops
<1> QED
  BY <1>1, InvariantCorrect, PTL

(* SetVsyncPeriodNs leaves no timestamp of the old mode behind but the one *)
(* of a wait that was under way; a fence added after it is of a frame the  *)
(* kernel was given with the mode or later.                                *)
THEOREM PhaseResetCorrect == Spec => []PhaseReset
<1>1. IInv => PhaseReset
  BY DEF IInv, TimeInv
<1> QED
  BY <1>1, InvariantCorrect, PTL

(* The vsyncs the thread tells the client are strictly increasing.         *)
THEOREM VsyncsInOrderCorrect == Spec => VsyncsInOrder
<1>1. IInv /\ [Next]_vars => [CallBack /\ wcallback => told' > told]_vars
  <2>1. ASSUME IInv, CallBack, wcallback
        PROVE  told' > told
    <3>1. told' = wtime /\ told < wtime
      BY <2>1 DEF IInv, TimeInv, CallBack
    <3>2. told \in Int /\ wtime \in Int
      BY <2>1, TypeFacts DEF IInv, NoTime
    <3> QED
      BY <3>1, <3>2
  <2> QED
    BY <2>1
<1> QED
  BY <1>1, InvariantCorrect, PTL DEF Spec, VsyncsInOrder

-----------------------------------------------------------------------------
(* Whoever wants vsyncs is served.                                         *)

Sections ==
  {"callback on", "callback off", "tracking on", "tracking off", "control", "period", "next",
   "commit", "fence", "stop", "join"}
Steering == {"callback on", "callback off", "tracking on", "tracking off"}

(* Whatever sets callback_ or enable_vsync_timestamps_ goes on to          *)
(* UpdateVSyncControl.                                                     *)
Steers(s) ==
  /\ s \in Seq(Sections)
  /\ \A i \in 1 .. Len(s) : s[i] \in Steering => i < Len(s) /\ s[i + 1] = "control"

(* The thread sleeps only while it is not enabled, which it is when one of *)
(* the two wants vsyncs, unless UpdateVSyncControl comes next.             *)
ServedInv ==
  /\ Steers(script)
  /\ wpc = "sleep" => ~enabled
  /\ exiting \/ (enabled <=> (tracking \/ callback))
       \/ (script # <<>> /\ Head(script) = "control")

(* A critical section leaves the rest of its operation, in which           *)
(* UpdateVSyncControl comes next after a change of what is wanted.         *)
LEMMA SectionSteers ==
  ASSUME Steers(script), NEW name, Section(name)
  PROVE  /\ Steers(script')
         /\ name \in Steering => script' # <<>> /\ Head(script') = "control"
<1>1. /\ script \in Seq(Sections) /\ script # <<>> /\ script' = Tail(script)
      /\ Head(script) = name
  BY DEF Steers, Section
<1>2. /\ Len(script) \in Nat \ {0} /\ script' \in Seq(Sections) /\ Len(script') = Len(script) - 1
      /\ script[1] = name
      /\ \A i \in 1 .. Len(script') : script'[i] = script[i + 1]
  BY <1>1
<1>3. ASSUME NEW i \in 1 .. Len(script'), script'[i] \in Steering
      PROVE  i < Len(script') /\ script'[i + 1] = "control"
  <2>1. i + 1 \in 1 .. Len(script) /\ script[i + 1] \in Steering
    BY <1>2, <1>3
  <2>2. i + 1 < Len(script) /\ script[i + 1 + 1] = "control"
    BY <2>1 DEF Steers
  <2>3. QED BY <1>2, <2>1, <2>2
<1>4. ASSUME name \in Steering
      PROVE  script' # <<>> /\ Head(script') = "control"
  <2>1. 1 \in 1 .. Len(script)
    BY <1>2
  <2>2. 1 < Len(script) /\ script[1 + 1] = "control"
    BY <1>2, <1>4, <2>1 DEF Steers
  <2>3. QED BY <1>2, <2>2
<1>5. QED BY <1>2, <1>3, <1>4 DEF Steers

(* What a script of up to six sections needs for that.                     *)
Leads(x, y) == x \in Steering => y = "control"

LEMMA ScriptSteers ==
  ASSUME NEW a \in Sections, NEW b \in Sections, NEW c \in Sections, NEW d \in Sections,
         NEW e \in Sections, NEW f \in Sections
  PROVE  /\ a \notin Steering => Steers(<<a>>)
         /\ Leads(a, b) /\ b \notin Steering => Steers(<<a, b>>)
         /\ Leads(a, b) /\ Leads(b, c) /\ c \notin Steering => Steers(<<a, b, c>>)
         /\ Leads(a, b) /\ Leads(b, c) /\ Leads(c, d) /\ d \notin Steering =>
              Steers(<<a, b, c, d>>)
         /\ Leads(a, b) /\ Leads(b, c) /\ Leads(c, d) /\ Leads(d, e) /\ e \notin Steering =>
              Steers(<<a, b, c, d, e>>)
         /\ Leads(a, b) /\ Leads(b, c) /\ Leads(c, d) /\ Leads(d, e) /\ Leads(e, f)
              /\ f \notin Steering => Steers(<<a, b, c, d, e, f>>)
<1>1. ASSUME a \notin Steering
      PROVE  Steers(<<a>>)
  <2> DEFINE s == <<a>>
  <2>1. /\ s \in Seq(Sections) /\ Len(s) = 1
        /\ s[1] = a
    OBVIOUS
  <2>2. \A i \in 1 .. 1 : i = 1
    OBVIOUS
  <2> HIDE DEF s
  <2>3. Steers(s)
    BY <1>1, <2>1, <2>2 DEF Steers, Leads
  <2> QED BY <2>3 DEF s
<1>2. ASSUME Leads(a, b), b \notin Steering
      PROVE  Steers(<<a, b>>)
  <2> DEFINE s == <<a, b>>
  <2>1. /\ s \in Seq(Sections) /\ Len(s) = 2
        /\ s[1] = a /\ s[2] = b
    OBVIOUS
  <2>2. \A i \in 1 .. 2 : i = 1 \/ i = 2
    OBVIOUS
  <2> HIDE DEF s
  <2>3. Steers(s)
    BY <1>2, <2>1, <2>2 DEF Steers, Leads
  <2> QED BY <2>3 DEF s
<1>3. ASSUME Leads(a, b), Leads(b, c), c \notin Steering
      PROVE  Steers(<<a, b, c>>)
  <2> DEFINE s == <<a, b, c>>
  <2>1. /\ s \in Seq(Sections) /\ Len(s) = 3
        /\ s[1] = a /\ s[2] = b /\ s[3] = c
    OBVIOUS
  <2>2. \A i \in 1 .. 3 : i = 1 \/ i = 2 \/ i = 3
    OBVIOUS
  <2> HIDE DEF s
  <2>3. Steers(s)
    BY <1>3, <2>1, <2>2 DEF Steers, Leads
  <2> QED BY <2>3 DEF s
<1>4. ASSUME Leads(a, b), Leads(b, c), Leads(c, d), d \notin Steering
      PROVE  Steers(<<a, b, c, d>>)
  <2> DEFINE s == <<a, b, c, d>>
  <2>1. /\ s \in Seq(Sections) /\ Len(s) = 4
        /\ s[1] = a /\ s[2] = b /\ s[3] = c /\ s[4] = d
    OBVIOUS
  <2>2. \A i \in 1 .. 4 : i = 1 \/ i = 2 \/ i = 3 \/ i = 4
    OBVIOUS
  <2> HIDE DEF s
  <2>3. Steers(s)
    BY <1>4, <2>1, <2>2 DEF Steers, Leads
  <2> QED BY <2>3 DEF s
<1>5. ASSUME Leads(a, b), Leads(b, c), Leads(c, d), Leads(d, e), e \notin Steering
      PROVE  Steers(<<a, b, c, d, e>>)
  <2> DEFINE s == <<a, b, c, d, e>>
  <2>1. /\ s \in Seq(Sections) /\ Len(s) = 5
        /\ s[1] = a /\ s[2] = b /\ s[3] = c /\ s[4] = d /\ s[5] = e
    OBVIOUS
  <2>2. \A i \in 1 .. 5 : i = 1 \/ i = 2 \/ i = 3 \/ i = 4 \/ i = 5
    OBVIOUS
  <2> HIDE DEF s
  <2>3. Steers(s)
    BY <1>5, <2>1, <2>2 DEF Steers, Leads
  <2> QED BY <2>3 DEF s
<1>6. ASSUME Leads(a, b), Leads(b, c), Leads(c, d), Leads(d, e), Leads(e, f),
             f \notin Steering
      PROVE  Steers(<<a, b, c, d, e, f>>)
  <2> DEFINE s == <<a, b, c, d, e, f>>
  <2>1. /\ s \in Seq(Sections) /\ Len(s) = 6
        /\ s[1] = a /\ s[2] = b /\ s[3] = c /\ s[4] = d /\ s[5] = e /\ s[6] = f
    OBVIOUS
  <2>2. \A i \in 1 .. 6 : i = 1 \/ i = 2 \/ i = 3 \/ i = 4 \/ i = 5 \/ i = 6
    OBVIOUS
  <2> HIDE DEF s
  <2>3. Steers(s)
    BY <1>6, <2>1, <2>2 DEF Steers, Leads
  <2> QED BY <2>3 DEF s
<1> QED BY <1>1, <1>2, <1>3, <1>4, <1>5, <1>6

(* Every operation steers as Steers says.                                  *)
LEMMA OperationsSteer ==
  ASSUME NEW s \in SetVsyncCallbacksEnabled \cup QueueConfig \cup PresentStagedComposition
                     \cup SetConfig \cup PowerOff \cup Deinit
  PROVE  Steers(s)
<1>1. /\ "control" \notin Steering /\ "period" \notin Steering /\ "next" \notin Steering
      /\ "commit" \notin Steering /\ "fence" \notin Steering
      /\ "join" \notin Steering /\ "stop" \notin Steering
  BY Zenon DEF Steering
<1>2. /\ \A x \in Sections : Leads(x, "control")
      /\ \A x, y : x \notin Steering => Leads(x, y)
  BY Zenon DEF Leads
<1>3. /\ "control" \in Sections /\ "period" \in Sections /\ "next" \in Sections
      /\ "commit" \in Sections /\ "fence" \in Sections
      /\ "join" \in Sections /\ "stop" \in Sections
      /\ "callback on" \in Sections /\ "callback off" \in Sections
      /\ "tracking on" \in Sections /\ "tracking off" \in Sections
  BY Zenon DEF Sections
<1>4. /\ Leads("tracking off", "control") /\ Leads("control", "tracking off")
      /\ Leads("callback on", "control") /\ Leads("callback off", "control")
      /\ Leads("tracking on", "control") /\ Leads("next", "tracking on")
      /\ Leads("control", "stop") /\ Leads("stop", "join")
      /\ Leads("next", "commit") /\ Leads("next", "tracking off")
      /\ Leads("commit", "tracking off") /\ Leads("control", "commit")
      /\ Leads("control", "period") /\ Leads("period", "fence") /\ Leads("commit", "fence")
  BY <1>1, <1>2, <1>3, Zenon
<1>10. \A a, b \in Sections : Leads(a, b) /\ b \notin Steering => Steers(<<a, b>>)
  BY ScriptSteers
<1>5. ASSUME s \in SetVsyncCallbacksEnabled \cup QueueConfig
      PROVE  Steers(s)
  <2>1. Steers(<<"callback on", "control">>)
    BY <1>1, <1>3, <1>4, <1>10, Zenon
  <2>2. Steers(<<"callback off", "control">>)
    BY <1>1, <1>3, <1>4, <1>10, Zenon
  <2>3. Steers(<<"next", "tracking on", "control">>)
    BY <1>1, <1>3, <1>4, ScriptSteers, Zenon
  <2>4. s \in SetVsyncCallbacksEnabled \/ s \in QueueConfig
    BY <1>5
  <2> QED BY <2>1, <2>2, <2>3, <2>4, Zenon DEF SetVsyncCallbacksEnabled, QueueConfig
<1>6. ASSUME s \in PresentStagedComposition
      PROVE  Steers(s)
  <2>1. Steers(<<"commit">>)
    <3>1. \A a \in Sections : a \notin Steering => Steers(<<a>>)
      BY ScriptSteers
    <3> QED BY <1>1, <1>3, <3>1, Zenon
  <2>2. Steers(<<"commit", "fence">>)
    BY <1>1, <1>3, <1>4, <1>10, Zenon
  <2>3. Steers(<<"next", "commit", "fence">>)
    BY <1>1, <1>3, <1>4, ScriptSteers, Zenon
  <2>4. Steers(<<"next", "commit", "tracking off", "control", "period", "fence">>)
    BY <1>1, <1>3, <1>4, ScriptSteers, Zenon
  <2>5. Steers(<<"next", "tracking off", "control">>)
    BY <1>1, <1>3, <1>4, ScriptSteers, Zenon
  <2> QED BY <1>6, <2>1, <2>2, <2>3, <2>4, <2>5, Zenon DEF PresentStagedComposition
<1>7. ASSUME s \in SetConfig
      PROVE  Steers(s)
  <2>1. Steers(<<"tracking off", "control">>)
    BY <1>1, <1>3, <1>4, <1>10, Zenon
  <2>2. Steers(<<"commit", "tracking off", "control", "period">>)
    BY <1>1, <1>3, <1>4, ScriptSteers, Zenon
  <2>3. Steers(<<"tracking off", "control", "commit", "tracking off", "control", "period">>)
    BY <1>1, <1>3, <1>4, ScriptSteers, Zenon
  <2>4. Steers(<<"tracking off", "control", "tracking off", "control", "period">>)
    BY <1>1, <1>3, <1>4, ScriptSteers, Zenon
  <2> QED BY <1>7, <2>1, <2>2, <2>3, <2>4, Zenon DEF SetConfig
<1>8. ASSUME s \in PowerOff \cup Deinit
      PROVE  Steers(s)
  <2>1. Steers(<<"callback off", "control", "tracking off", "control">>)
    BY <1>1, <1>3, <1>4, ScriptSteers, Zenon
  <2>2. Steers(<<"tracking off", "control", "stop", "join">>)
    BY <1>1, <1>3, <1>4, ScriptSteers, Zenon
  <2>3. s \in PowerOff \/ s \in Deinit
    BY <1>8
  <2> QED BY <2>1, <2>2, <2>3, Zenon DEF PowerOff, Deinit
<1>9. \/ s \in SetVsyncCallbacksEnabled \cup QueueConfig \/ s \in SetConfig
      \/ s \in PresentStagedComposition \/ s \in PowerOff \cup Deinit
  OBVIOUS
<1> QED BY <1>5, <1>6, <1>7, <1>8, <1>9

LEMMA MainServes ==
  ASSUME TypeOK, ServedInv, MainEnds
  PROVE  ServedInv'
<1>1. CASE CallbackOn \/ CallbackOff \/ Tracking(TRUE) \/ Tracking(FALSE)
  <2>1. /\ Steers(script') /\ script' # <<>> /\ Head(script') = "control"
        /\ wpc' = wpc /\ enabled' = enabled
    BY <1>1, SectionSteers
       DEF CallbackOn, CallbackOff, Tracking, Steering, ServedInv, thread
  <2>2. QED BY <2>1 DEF ServedInv
<1>2. CASE UpdateVSyncControl
  <2>1. Steers(script') /\ wpc' # "sleep" /\ (enabled' <=> (tracking' \/ callback'))
    BY <1>2, SectionSteers DEF UpdateVSyncControl, Notified, ServedInv
  <2>2. QED BY <2>1 DEF ServedInv
<1>3. CASE \/ SetVsyncPeriodNs \/ GetNextVsyncTimestamp \/ Commit \/ AddLastPresentFence
         \/ Join
  <2>1. /\ Steers(script') /\ Head(script) # "control"
        /\ UNCHANGED <<wpc, enabled, exiting, tracking, callback>>
    BY <1>3, SectionSteers
       DEF SetVsyncPeriodNs, GetNextVsyncTimestamp, Commit, AddLastPresentFence, Join,
           Section, ServedInv, thread, worker
  <2>2. QED BY <2>1 DEF ServedInv
<1>4. CASE StopThread
  <2>1. Steers(script') /\ wpc' # "sleep" /\ exiting'
    BY <1>4, SectionSteers DEF StopThread, Notified, ServedInv
  <2>2. QED BY <2>1 DEF ServedInv
<1>5. QED BY <1>1, <1>2, <1>3, <1>4 DEF MainEnds

LEMMA ServedStep == TypeOK /\ ServedInv /\ [Next]_vars => ServedInv'
<1> SUFFICES ASSUME TypeOK, ServedInv, [Next]_vars PROVE ServedInv'
  OBVIOUS
<1>1. CASE Call
  <2>1. Steers(script')
    BY <1>1, OperationsSteer DEF Call
  <2>2. QED BY <1>1, <2>1 DEF Call, ServedInv, worker, thread
<1>2. CASE MainEnds
  BY <1>2, MainServes
<1>3. CASE Top
  BY <1>3 DEF Top, Goto, worker, ServedInv
<1>4. CASE WaitVBlank \/ SyntheticWaitVBlank \/ NanosleepDone \/ Store \/ CallBack
  BY <1>4 DEF WaitVBlank, SyntheticWaitVBlank, NanosleepDone, Store, CallBack, Goto, worker,
     ServedInv
<1>5. CASE Tick \/ UNCHANGED vars
  BY <1>5 DEF Tick, vars, worker, thread, ServedInv
<1>6. QED BY <1>1, <1>2, <1>3, <1>4, <1>5 DEF Next, WorkerStep

(* UpdateVSyncControl wakes the thread after every change of what is       *)
(* wanted: no operation ends while it sleeps through vsyncs.               *)
THEOREM VsyncServedCorrect == Spec => []VsyncServed
<1>1. Init => ServedInv
  BY DEF Init, ServedInv, Steers
<1>2. ServedInv /\ TypeOK => VsyncServed
  BY DEF ServedInv, TypeOK, VsyncServed
<1>3. Spec => []ServedInv
  BY <1>1, ServedStep, TypeCorrect, PTL DEF Spec
<1>4. QED BY <1>2, <1>3, TypeCorrect, PTL
=============================================================================
