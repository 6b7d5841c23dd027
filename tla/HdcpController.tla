--------------------------- MODULE HdcpController ---------------------------
(***************************************************************************)
(* HDCP negotiation of one display: HdcpController and its thread, the     *)
(* operations of HwcDisplay that drive it, and the kernel that             *)
(* authenticates the link in its own time.                                 *)
(*                                                                         *)
(* HwcDisplay calls the controller under the composer's main lock, so its  *)
(* operations are steps of one thread, "main".  The controller's thread    *)
(* and the kernel run between them; it queries the connector and calls the *)
(* client without mutex_.                                                  *)
(*                                                                         *)
(* A first attempt asks for content type 1, the retry for type 0.  Time is *)
(* one flag: the deadline of the attempt has passed, or not.               *)
(*                                                                         *)
(* The names every specification has begin with Hdcp here, so that a       *)
(* module can extend this one and another.                                 *)
(***************************************************************************)

Types == {"type0", "type1"}
Levels == Types \cup {"none"}    \* what notify_hdcp_status reports

VARIABLES
  state,     \* hdcp_state_
  wasRetry,  \* was_retry_
  enabled,   \* enabled_content_type_, "none" for nullopt
  due,       \* sleep_until_ has passed
  \* the controller's thread
  hpc,       \* the step it is at
  cpEnabled, \* cp_enabled in SetContentProtectionStatus
  hlevel,    \* notify_type in SetContentProtectionStatus
  \* the main thread
  mpc,       \* the step it is at
  mlevel,    \* notify_type in Start
  mtype,     \* hdcp_content_type of the commit under way, or "none"
  \* the kernel
  cp,        \* the content protection property reads ENABLED
  asked,     \* content type of the last HDCP commit, or "none"
  \* the client and history
  level,     \* the level it was told last; "unset" before that
  refresh,   \* it was asked for a frame since the controller entered kRetry
  tried,     \* content types committed since the negotiation was started
  late       \* a success was still to be told when HDCP was terminated last

controller == <<state, wasRetry, enabled, due>>
helper == <<hpc, cpEnabled, hlevel>>
main == <<mpc, mlevel, mtype>>
kernel == <<cp, asked>>
client == <<level, refresh, tried, late>>
hdcpVars == <<controller, helper, main, kernel, client>>

HdcpInit ==
  /\ state = "Undesired" /\ wasRetry = FALSE /\ enabled = "none" /\ due = FALSE
  /\ hpc = "top" /\ cpEnabled = FALSE /\ hlevel = "none"
  /\ mpc = "idle" /\ mlevel = "none" /\ mtype = "none"
  /\ cp = FALSE /\ asked = "none"
  /\ level = "unset" /\ refresh = FALSE /\ tried = {} /\ late = FALSE

(* Operators whose comment begins "Wrong on purpose" are no part of the    *)
(* specification: each is a slip the code could have had in the operator   *)
(* after it, kept to show which property notices.                          *)

(* Wrong on purpose: no notify_all.                                        *)
NotNotified == hpc

(* notify_all on cv_: a thread in cv_.wait goes back to the top of its     *)
(* loop.  (cv_.wait_until ends by itself and needs no wake-up.)            *)
Notified == IF hpc = "wait" THEN "top" ELSE hpc

-----------------------------------------------------------------------------
(* The main thread.                                                        *)

(* StartHdcp: the client's request, or a display that was just bound.      *)
StartNotifies ==
  /\ mpc = "idle" /\ state \in {"Enabled", "Infeasible"}
  /\ mpc' = "notify" /\ mlevel' = IF state = "Enabled" THEN enabled ELSE "none"
  /\ UNCHANGED <<controller, helper, mtype, kernel, client>>

StartNotify ==
  /\ mpc = "notify"
  /\ level' = mlevel
  /\ mpc' = "idle" /\ mlevel' = "none"
  /\ UNCHANGED <<controller, helper, mtype, kernel, refresh, tried, late>>

(* The default branch restarts whatever was going on; kRetry is left alone. *)
StartDesired ==
  /\ mpc = "idle" /\ state \in {"Undesired", "Desired", "Requested"}
  /\ state' = "Desired" /\ enabled' = "none" /\ tried' = {}
  /\ hpc' = Notified
  /\ UNCHANGED <<wasRetry, due, cpEnabled, hlevel, main, kernel, level, refresh, late>>

(* CreateFrameUpdateCommit: a frame carries the HDCP properties.           *)
BuildFrame ==
  /\ mpc = "idle" /\ state \in {"Desired", "Retry"}
  /\ mpc' = "commit" /\ mtype' = IF state = "Desired" THEN "type1" ELSE "type0"
  /\ UNCHANGED <<controller, helper, mlevel, kernel, client>>

(* Wrong on purpose: once a retry, always a retry.                         *)
WasRetryKept == wasRetry \/ state = "Retry"

(* Wrong on purpose: every attempt is taken for a first one.               *)
WasRetryNever == FALSE

WasRetry == state = "Retry"

(* Requested, after the commit: was this the retry?                        *)
Requested ==
  IF state \in {"Enabled", "Undesired", "Infeasible"}
    THEN UNCHANGED <<controller, hpc>>
    ELSE /\ wasRetry' = WasRetry
         /\ state' = "Requested" /\ due' = FALSE
         /\ hpc' = Notified
         /\ UNCHANGED enabled

(* The commit succeeds.  The kernel authenticates anew, or knows that the  *)
(* link still is.                                                          *)
CommitFrame ==
  /\ mpc = "commit"
  /\ asked' = mtype /\ cp' \in {cp, FALSE} /\ tried' = tried \cup {mtype}
  /\ Requested
  /\ mpc' = "idle" /\ mtype' = "none"
  /\ UNCHANGED <<cpEnabled, hlevel, mlevel, level, refresh, late>>

CommitFails ==
  /\ mpc = "commit"
  /\ mpc' = "idle" /\ mtype' = "none"
  /\ UNCHANGED <<controller, helper, mlevel, kernel, client>>

(* Wrong on purpose: the client is not told.                               *)
SaysNothing == level

SaysDisabled == "none"

(* StopHdcp and Terminate: a uevent said that content protection is gone.  *)
(* The property was read earlier, so it may be enabled again by now.  The  *)
(* client is told under mutex_.                                            *)
StopHdcp ==
  /\ mpc = "idle" /\ state = "Enabled"
  /\ state' = "Undesired" /\ enabled' = "none"
  /\ level' = SaysDisabled /\ late' = (hpc = "notify")
  /\ hpc' = Notified
  /\ UNCHANGED <<wasRetry, due, cpEnabled, hlevel, main, kernel, refresh, tried>>

(* The destructor: tell the thread to go and join it.                      *)
Destroy ==
  /\ mpc = "idle"
  /\ state' = "ThreadExit" /\ mpc' = "join"
  /\ hpc' = Notified
  /\ UNCHANGED <<wasRetry, enabled, due, cpEnabled, hlevel, mlevel, mtype, kernel, client>>

Join ==
  /\ mpc = "join" /\ hpc = "done"
  /\ mpc' = "gone"
  /\ UNCHANGED <<controller, helper, mlevel, mtype, kernel, client>>

-----------------------------------------------------------------------------
(* ThreadFn and SetContentProtectionStatus, which it calls.                *)

HelperTop ==
  /\ hpc = "top"
  /\ \/ state = "ThreadExit" /\ hpc' = "done"
     \/ state = "Requested" /\ hpc' = IF due THEN "query" ELSE "waituntil"
     \/ state \notin {"ThreadExit", "Requested"} /\ hpc' = "wait"
  /\ UNCHANGED <<controller, cpEnabled, hlevel, main, kernel, client>>

(* cv_.wait_until ends after 100 ms, at the deadline or when notified.     *)
HelperWaited ==
  /\ hpc = "waituntil"
  /\ hpc' = IF state = "Requested" THEN "early" ELSE "top"
  /\ UNCHANGED <<controller, cpEnabled, hlevel, main, kernel, client>>

(* The early check looks at the property first, off the lock.              *)
EarlyCheck ==
  /\ hpc = "early"
  /\ hpc' = IF cp THEN "query" ELSE "top"
  /\ UNCHANGED <<controller, cpEnabled, hlevel, main, kernel, client>>

(* SetContentProtectionStatus queries it (again), off the lock ...         *)
QueryContentProtection ==
  /\ hpc = "query"
  /\ cpEnabled' = cp /\ hpc' = "decide"
  /\ UNCHANGED <<controller, hlevel, main, kernel, client>>

(* ... and draws the conclusion under the lock.                            *)
DecideNothing ==
  /\ state # "Requested"
  /\ hpc' = "top"
  /\ UNCHANGED <<controller, hlevel, refresh>>

DecideEnabled ==
  /\ state = "Requested" /\ cpEnabled
  /\ LET type == IF wasRetry THEN "type0" ELSE "type1"
     IN enabled' = type /\ hlevel' = type
  /\ state' = "Enabled" /\ wasRetry' = FALSE
  /\ hpc' = "notify"
  /\ UNCHANGED <<due, refresh>>

(* Wrong on purpose: nobody is asked for the retry frame.                  *)
NoRetryFrame == "top"

RetryFrame == "retryframe"

DecideRetry ==
  /\ state = "Requested" /\ ~cpEnabled /\ ~wasRetry
  /\ state' = "Retry" /\ refresh' = FALSE
  /\ hpc' = RetryFrame
  /\ UNCHANGED <<wasRetry, enabled, due, hlevel>>

DecideInfeasible ==
  /\ state = "Requested" /\ ~cpEnabled /\ wasRetry
  /\ state' = "Infeasible" /\ wasRetry' = FALSE
  /\ hlevel' = "none"
  /\ hpc' = "notify"
  /\ UNCHANGED <<enabled, due, refresh>>

Decide ==
  /\ hpc = "decide"
  /\ DecideNothing \/ DecideEnabled \/ DecideRetry \/ DecideInfeasible
  /\ UNCHANGED <<cpEnabled, main, kernel, level, tried, late>>

(* The callbacks, off the lock.                                            *)
NotifyStatus ==
  /\ hpc = "notify"
  /\ level' = hlevel
  /\ hpc' = "top"
  /\ UNCHANGED <<controller, cpEnabled, hlevel, main, kernel, refresh, tried, late>>

TriggerRetryFrame ==
  /\ hpc = "retryframe"
  /\ refresh' = TRUE
  /\ hpc' = "top"
  /\ UNCHANGED <<controller, cpEnabled, hlevel, main, kernel, level, tried, late>>

HelperStep ==
  \/ HelperTop \/ HelperWaited \/ EarlyCheck \/ QueryContentProtection
  \/ Decide \/ NotifyStatus \/ TriggerRetryFrame

-----------------------------------------------------------------------------
Expire ==
  /\ state = "Requested" /\ ~due
  /\ due' = TRUE
  /\ UNCHANGED <<state, wasRetry, enabled, helper, main, kernel, client>>

(* The kernel authenticates the link, or finds that it no longer is.       *)
Authenticate ==
  /\ asked # "none"
  /\ cp' = ~cp
  /\ UNCHANGED <<controller, helper, main, asked, client>>

MainEnds == StartNotify \/ CommitFrame \/ CommitFails \/ Join

HdcpNext ==
  \/ StartNotifies \/ StartDesired \/ BuildFrame \/ StopHdcp \/ Destroy
  \/ MainEnds \/ HelperStep \/ Expire \/ Authenticate

(* An operation that started ends, the thread runs and time passes; nobody *)
(* has to start a negotiation, present a frame or authenticate a link.     *)
HdcpFairness == WF_hdcpVars(MainEnds) /\ WF_hdcpVars(HelperStep) /\ WF_hdcpVars(Expire)

HdcpSpec == HdcpInit /\ [][HdcpNext]_hdcpVars /\ HdcpFairness

-----------------------------------------------------------------------------
(* Properties.                                                             *)

HdcpTypeOK ==
  /\ state \in {"Undesired", "Desired", "Requested", "Enabled", "Retry",
                "Infeasible", "ThreadExit"}
  /\ wasRetry \in BOOLEAN /\ enabled \in Levels /\ due \in BOOLEAN
  /\ hpc \in {"top", "wait", "waituntil", "early", "query", "decide", "notify",
              "retryframe", "done"}
  /\ cpEnabled \in BOOLEAN /\ hlevel \in Levels
  /\ mpc \in {"idle", "notify", "commit", "join", "gone"}
  /\ mlevel \in Levels /\ mtype \in Levels
  /\ cp \in BOOLEAN /\ asked \in Levels
  /\ level \in Levels \cup {"unset"} /\ refresh \in BOOLEAN
  /\ tried \subseteq Types /\ late \in BOOLEAN

(* The level the controller reports for an enabled link is the content     *)
(* type of the commit the kernel was last asked with, however restarts and *)
(* retries crossed with the thread's queries.                              *)
EnabledAsAsked == state = "Enabled" => enabled = asked

(* A link is given up only after both content types were tried since the   *)
(* negotiation was last started: was_retry_ of an earlier negotiation does *)
(* not cut a new one short.                                                *)
InfeasibleAfterBoth == state = "Infeasible" => tried = Types

(* Each content type is committed at most once per negotiation: a commit   *)
(* of type 1 only opens it.                                                *)
RetryEndsWithType0 == state \in {"Desired", "Retry"} => "type0" \notin tried

(* An attempt the kernel was asked for comes to an end although nothing    *)
(* else happens: enabled, given up, started anew, or the client has been   *)
(* asked for the frame that carries the retry.                             *)
AttemptConcluded ==
  (state = "Requested") ~>
    (state \in {"Undesired", "Desired", "Enabled", "Infeasible", "ThreadExit"}
       \/ (state = "Retry" /\ refresh))

(* HdcpController.h:96 on Terminate: "Stops any ongoing HDCP negotiation,   *)
(* resets the state to kUndesired, and notifies the client that HDCP is    *)
(* disabled".  The client does not believe the opposite afterwards, be it  *)
(* from the thread or from a StartHdcp that found the link enabled.        *)
(* Excepted is a success the thread had not told yet: it tells it off the  *)
(* lock, after the client was told that HDCP is disabled.                  *)
TerminatedClientKnows == state = "Undesired" /\ ~late => level \in {"unset", "none"}
=============================================================================
