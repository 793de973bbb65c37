------------------------ MODULE ReconnectModalProofs ------------------------
(***************************************************************************)
(* The safety of the reconnect dialog, for any number of activations.      *)
(*                                                                         *)
(* StaleListenerNeedsOverlap and ReloadNeedsOverlap speak of histories     *)
(* without overlap; what such a history leaves behind is Alone: the one    *)
(* activation under way was started in the state it is meant for, and      *)
(* nothing has changed that state under it.                                *)
(***************************************************************************)
EXTENDS ReconnectModal, TLAPS

ClassFollowsLink ==
    /\ link = "up" => class = "hide"
    /\ link = "retrying" => class \in {"show", "rejected"}

Alone ==
    ~overlapped =>
        /\ \A t, u \in Tasks : pc[t] # "idle" /\ pc[u] # "idle" => t = u
        /\ \A t \in Tasks : pc[t] \in Retrying => link = "failed" /\ ~armed
        /\ \A t \in Tasks : pc[t] = "resume" => link = "paused"
        /\ armed => link = "failed"

IInv == TypeOK /\ FailureIsWatched /\ WayOutIsOffered /\ ClassFollowsLink /\ Alone

LEMMA InitEstablishes == Init => IInv
BY DEF Init, IInv, TypeOK, FailureIsWatched, WayOutIsOffered, ClassFollowsLink, Alone,
       Awaits, Retrying

\* What the handlers do between two awaits keeps the invariant.
LEMMA TasksPreserve ==
    ASSUME IInv, NEW t \in Tasks, Continue(t) \/ Serve(t)
    PROVE  IInv'
<1> USE DEF IInv, TypeOK, FailureIsWatched, WayOutIsOffered, ClassFollowsLink, Alone,
            Awaits, Retrying, page, world
<1>1. CASE RetryReconnected(t)
      BY <1>1 DEF RetryReconnected, Finish, Blazor, handleReconnectStateChanged
<1>2. CASE RetryRejected(t)
      BY <1>2 DEF RetryRejected
<1>3. CASE RetryResumed(t)
      BY <1>3 DEF RetryResumed, Finish, Blazor, handleReconnectStateChanged
<1>4. CASE RetryReloads(t)
      BY <1>4 DEF RetryReloads, Finish
<1>5. CASE RetryUnreachable(t)
      BY <1>5 DEF RetryUnreachable, Finish
<1>6. CASE Resumed(t)
      BY <1>6 DEF Resumed, Finish, Blazor, handleReconnectStateChanged
<1>7. CASE ResumeReloads(t)
      BY <1>7 DEF ResumeReloads, Finish
<1>8. CASE ResumeFails(t)
      BY <1>8 DEF ResumeFails, Finish
<1>9. CASE Serve(t)
  <2>1. PICK answer \in {"yes", "no", "error"} : Reply(t, answer) /\ circuit' \in {circuit, "alive"}
        BY <1>9 DEF Serve, Unreachable, AnswerReconnect, AnswerResume
  <2>2. QED BY <2>1 DEF Reply
<1>10. QED
       BY <1>1, <1>2, <1>3, <1>4, <1>5, <1>6, <1>7, <1>8, <1>9 DEF Continue

LEMMA UserPreserves ==
    ASSUME IInv, User
    PROVE  IInv'
<1> USE DEF IInv, TypeOK, FailureIsWatched, WayOutIsOffered, ClassFollowsLink, Alone,
            Awaits, Retrying, script, page, world
<1>1. CASE DocumentHides
      BY <1>1 DEF DocumentHides
<1>2. CASE DocumentShows
  <2>1. ASSUME armed, NEW t \in Tasks, StartRetry(t)
        PROVE  IInv'
    <3>1. UNCHANGED <<dialog, dismissed, class, reloading, link, circuit, reachable>> /\ visible' = TRUE
          BY <1>2 DEF DocumentShows
    <3>2. QED BY <2>1, <3>1 DEF StartRetry
  <2>2. CASE ~armed /\ UNCHANGED <<script, armed>>
        BY <1>2, <2>2 DEF DocumentShows
  <2>3. QED BY <1>2, <2>1, <2>2 DEF DocumentShows
<1>3. ASSUME NEW t \in Tasks, ClickRetry(t)
      PROVE  IInv'
      BY <1>3 DEF ClickRetry, StartRetry
<1>4. ASSUME NEW t \in Tasks, ClickResume(t)
      PROVE  IInv'
      BY <1>4 DEF ClickResume
<1>5. CASE Dismiss
      BY <1>5 DEF Dismiss
<1>6. QED BY <1>1, <1>2, <1>3, <1>4, <1>5 DEF User

LEMMA EnvironmentPreserves ==
    ASSUME IInv, Environment
    PROVE  IInv'
<1> USE DEF IInv, TypeOK, FailureIsWatched, WayOutIsOffered, ClassFollowsLink, Alone,
            Awaits, Retrying, script, page
<1>1. CASE ConnectionDrops
      BY <1>1 DEF ConnectionDrops, Event, Blazor, handleReconnectStateChanged
<1>2. CASE BlazorReconnects
      BY <1>2 DEF BlazorReconnects, Event, Blazor, handleReconnectStateChanged
<1>3. CASE BlazorRejected
      BY <1>3 DEF BlazorRejected, Event, Blazor, handleReconnectStateChanged
<1>4. CASE BlazorGivesUp
      BY <1>4 DEF BlazorGivesUp, Event, Blazor, handleReconnectStateChanged
<1>5. CASE CircuitPauses
      BY <1>5 DEF CircuitPauses, Event, Blazor, handleReconnectStateChanged
<1>6. CASE CircuitExpires
      BY <1>6 DEF CircuitExpires
<1>7. CASE ReachabilityChanges
      BY <1>7 DEF ReachabilityChanges
<1>8. CASE PageLoads
      BY <1>8 DEF PageLoads
<1>9. QED
      BY <1>1, <1>2, <1>3, <1>4, <1>5, <1>6, <1>7, <1>8 DEF Environment

\* The invariant is one.
THEOREM Invariance == Spec => []IInv
<1>1. Init => IInv
      BY InitEstablishes
<1>2. IInv /\ [Next]_vars => IInv'
  <2>1. ASSUME IInv, UNCHANGED vars PROVE IInv'
        BY <2>1 DEF IInv, TypeOK, FailureIsWatched, WayOutIsOffered, ClassFollowsLink,
                    Alone, vars, script, page, world
  <2>2. QED BY <2>1, TasksPreserve, UserPreserves, EnvironmentPreserves DEF Next
<1>3. QED BY <1>1, <1>2, PTL DEF Spec

\* Every variable of the script and of its surroundings keeps its type.
THEOREM ModalIsTyped == Spec => []TypeOK
BY Invariance, PTL DEF IInv

\* A connection that Blazor gave up is watched by the listener or by a retry.
THEOREM FailuresAreWatched == Spec => []FailureIsWatched
BY Invariance, PTL DEF IInv

\* The dialog is open while the page is not connected, with the button that helps,
\* unless its user has closed it since.
THEOREM WaysOutAreOffered == Spec => []WayOutIsOffered
BY Invariance, PTL DEF IInv

\* Activations that never overlap leave no listener on a connected page.
THEOREM StaleListenersNeedOverlap == Spec => []StaleListenerNeedsOverlap
<1>1. IInv => StaleListenerNeedsOverlap
      BY DEF IInv, Alone, StaleListenerNeedsOverlap
<1>2. QED BY <1>1, Invariance, PTL

\* Nor do they reload a page that is connected.
THEOREM ReloadsNeedOverlap == Spec => ReloadNeedsOverlap
<1>1. ASSUME IInv, [Next]_vars, ~reloading, reloading', link' = "up"
      PROVE  overlapped
  <2> USE DEF IInv, TypeOK, Alone, Retrying
  <2>1. ASSUME NEW t \in Tasks, Continue(t) PROVE overlapped
        BY <1>1, <2>1
           DEF Continue, RetryReconnected, RetryRejected, RetryResumed, RetryReloads,
               RetryUnreachable, Resumed, ResumeReloads, ResumeFails, Finish, Blazor,
               handleReconnectStateChanged, page, world
  <2>2. ASSUME NEW t \in Tasks, Serve(t) PROVE FALSE
        BY <1>1, <2>2 DEF Serve, Unreachable, AnswerReconnect, AnswerResume, Reply, page
  <2>3. CASE User
        BY <1>1, <2>3 DEF User, DocumentHides, DocumentShows, Dismiss, ClickRetry, ClickResume, page
  <2>4. CASE Environment
        BY <1>1, <2>4
           DEF Environment, ConnectionDrops, BlazorReconnects, BlazorRejected, BlazorGivesUp,
               CircuitPauses, CircuitExpires, ReachabilityChanges, PageLoads, Event, Blazor,
               handleReconnectStateChanged, page
  <2>5. CASE UNCHANGED vars
        BY <1>1, <2>5 DEF vars, page
  <2>6. QED BY <1>1, <2>1, <2>2, <2>3, <2>4, <2>5 DEF Next
<1>2. IInv /\ [Next]_vars
        => [~reloading /\ reloading' /\ link' = "up" => overlapped]_vars
      BY <1>1
<1>3. QED BY <1>2, Invariance, PTL DEF Spec, ReloadNeedsOverlap
=============================================================================
