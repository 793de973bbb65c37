--------------------------- MODULE ReconnectModal ---------------------------
(***************************************************************************)
(* The reconnect dialog of the example application: the handlers of        *)
(* ReconnectModal.razor.js, among the events of the page.                  *)
(*                                                                         *)
(* A task is one activation of the async functions retry or resume. What   *)
(* runs between two awaits is one step, so the interleavings are those of  *)
(* the event loop: clicks, visibility changes, Blazor's events and the     *)
(* answers to calls under way, which may arrive long after the server gave *)
(* them. Blazor, the browser and the server are outside the repository and *)
(* modelled from what the script expects of them.                          *)
(***************************************************************************)

CONSTANTS Tasks   \* bounds the activations under way at once

VARIABLES
    pc,        \* the await each task is at, "idle" when it is free
    reply,     \* what the promise awaited will settle with, once the server decided
    armed,     \* retryWhenDocumentBecomesVisible listens to visibilitychange
    dialog,    \* the dialog is open
    dismissed, \* the user has closed it since it was last opened
    class,     \* the class Blazor gave the dialog: which button CSS displays
    reloading, \* location.reload() was called and the page is still there
    visible,   \* document.visibilityState
    link,      \* Blazor: the page's connection
    circuit,   \* the server: the page's circuit
    reachable, \* the server can be reached
    overlapped \* history: a task was started while another was under way

script == <<pc, reply, overlapped>>
page == <<armed, dialog, dismissed, class, reloading>>
world == <<visible, link, circuit, reachable>>
vars == <<script, page, world>>

Retrying == {"reconnect", "resume after rejection"}
Awaits == Retrying \cup {"resume"}

Init ==
    /\ pc = [t \in Tasks |-> "idle"]
    /\ reply = [t \in Tasks |-> "pending"]
    /\ armed = FALSE /\ dialog = FALSE /\ dismissed = FALSE
    /\ class = "hide" /\ reloading = FALSE
    /\ visible = TRUE /\ link = "up" /\ circuit = "alive" /\ reachable = TRUE
    /\ overlapped = FALSE

-----------------------------------------------------------------------------
(* Mistakes that the properties below would catch. *)

\* The listener is left where it is.
StartRetry_Armed(t) ==
    /\ pc[t] = "idle"
    /\ pc' = [pc EXCEPT ![t] = "reconnect"]
    /\ reply' = [reply EXCEPT ![t] = "pending"]
    /\ UNCHANGED armed
    /\ overlapped' = (overlapped \/ \E u \in Tasks \ {t} : pc[u] # "idle")

\* The class is set, whatever Blazor has made of it since.
ResumeFails_Overwriting(t) ==
    /\ pc[t] = "resume" /\ reply[t] = "error"
    /\ class' = "resume-failed"
    /\ pc' = [pc EXCEPT ![t] = "idle"]
    /\ UNCHANGED <<reply, overlapped, armed, dialog, dismissed, reloading, world>>

\* The class is taken away, and nothing replaces it.
ResumeFails_Removing(t) ==
    /\ pc[t] = "resume" /\ reply[t] = "error"
    /\ class' = IF class = "paused" THEN "none" ELSE class
    /\ pc' = [pc EXCEPT ![t] = "idle"]
    /\ UNCHANGED <<reply, overlapped, armed, dialog, dismissed, reloading, world>>

\* The try block ends before resumeCircuit.
RetryUnreachable_FirstAwaitOnly(t) ==
    /\ pc[t] \in Retrying /\ reply[t] = "error"
    /\ armed' = (armed \/ pc[t] = "reconnect")
    /\ pc' = [pc EXCEPT ![t] = "idle"]
    /\ UNCHANGED <<reply, overlapped, dialog, dismissed, class, reloading, world>>

\* An exception is only logged.
RetryUnreachable_Ignored(t) ==
    /\ pc[t] \in Retrying /\ reply[t] = "error"
    /\ pc' = [pc EXCEPT ![t] = "idle"]
    /\ UNCHANGED <<reply, overlapped, page, world>>

\* The answer of resumeCircuit is not looked at.
RetryResumed_Reloading(t) ==
    /\ pc[t] = "resume after rejection" /\ reply[t] = "yes"
    /\ pc' = [pc EXCEPT ![t] = "idle"]
    /\ link' = "up" /\ class' = "hide" /\ dialog' = FALSE /\ reloading' = TRUE
    /\ dismissed' = FALSE
    /\ UNCHANGED <<reply, overlapped, armed, visible, circuit, reachable>>

-----------------------------------------------------------------------------
(* The handlers. *)

\* Opening an open dialog and closing a closed one do nothing.
handleReconnectStateChanged(state) ==
    /\ dialog' = (state = "show" \/ (dialog /\ state # "hide"))
    /\ dismissed' = (dismissed /\ state \notin {"show", "hide"})
    /\ armed' = (armed \/ state = "failed")
    /\ reloading' = (reloading \/ state = "rejected")

\* Blazor classes the dialog before it tells the handler.
Blazor(connection, newClass, state) ==
    /\ link' = connection
    /\ class' = newClass
    /\ handleReconnectStateChanged(state)

\* retry up to its first await.
StartRetry(t) ==
    /\ pc[t] = "idle"
    /\ pc' = [pc EXCEPT ![t] = "reconnect"]
    /\ reply' = [reply EXCEPT ![t] = "pending"]
    /\ armed' = FALSE
    /\ overlapped' = (overlapped \/ \E u \in Tasks \ {t} : pc[u] # "idle")

\* In this class the style sheet displays the element even where the dialog is closed.
ClickRetry(t) ==
    /\ class = "failed"
    /\ StartRetry(t)
    /\ UNCHANGED <<dialog, dismissed, class, reloading, world>>

\* The class of a pause does not.
ClickResume(t) ==
    /\ dialog /\ class \in {"paused", "resume-failed"}
    /\ pc[t] = "idle"
    /\ pc' = [pc EXCEPT ![t] = "resume"]
    /\ reply' = [reply EXCEPT ![t] = "pending"]
    /\ overlapped' = (overlapped \/ \E u \in Tasks \ {t} : pc[u] # "idle")
    /\ UNCHANGED <<page, world>>

\* A dialog opened with showModal closes on Escape: nothing cancels it.
Dismiss ==
    /\ dialog
    /\ dialog' = FALSE /\ dismissed' = TRUE
    /\ UNCHANGED <<script, armed, class, reloading, world>>

\* The listener looks at visibilityState and does nothing in a hidden document.
DocumentHides ==
    /\ visible /\ visible' = FALSE
    /\ UNCHANGED <<script, page, link, circuit, reachable>>

DocumentShows ==
    /\ ~visible /\ visible' = TRUE
    /\ \/ armed /\ \E t \in Tasks : StartRetry(t)
       \/ ~armed /\ UNCHANGED <<script, armed>>
    /\ UNCHANGED <<dialog, dismissed, class, reloading, link, circuit, reachable>>

Finish(t) ==
    /\ pc' = [pc EXCEPT ![t] = "idle"]
    /\ UNCHANGED <<reply, overlapped, visible, circuit, reachable>>

\* Blazor is up again and says so before its promise settles; nothing follows.
RetryReconnected(t) ==
    /\ pc[t] = "reconnect" /\ reply[t] = "yes"
    /\ Finish(t)
    /\ Blazor("up", "hide", "hide")

RetryRejected(t) ==
    /\ pc[t] = "reconnect" /\ reply[t] = "no"
    /\ pc' = [pc EXCEPT ![t] = "resume after rejection"]
    /\ reply' = [reply EXCEPT ![t] = "pending"]
    /\ UNCHANGED <<overlapped, page, world>>

\* Blazor hides the dialog, and close() finds it closed.
RetryResumed(t) ==
    /\ pc[t] = "resume after rejection" /\ reply[t] = "yes"
    /\ Finish(t)
    /\ Blazor("up", "hide", "hide")

RetryReloads(t) ==
    /\ pc[t] = "resume after rejection" /\ reply[t] = "no"
    /\ reloading' = TRUE
    /\ Finish(t)
    /\ UNCHANGED <<armed, dialog, dismissed, class, link>>

\* The catch clause is that of both awaits.
RetryUnreachable(t) ==
    /\ pc[t] \in Retrying /\ reply[t] = "error"
    /\ armed' = TRUE
    /\ Finish(t)
    /\ UNCHANGED <<dialog, dismissed, class, reloading, link>>

Resumed(t) ==
    /\ pc[t] = "resume" /\ reply[t] = "yes"
    /\ Finish(t)
    /\ Blazor("up", "hide", "hide")

ResumeReloads(t) ==
    /\ pc[t] = "resume" /\ reply[t] = "no"
    /\ reloading' = TRUE
    /\ Finish(t)
    /\ UNCHANGED <<armed, dialog, dismissed, class, link>>

\* classList.replace does nothing when the class to replace is no longer there.
ResumeFails(t) ==
    /\ pc[t] = "resume" /\ reply[t] = "error"
    /\ class' = IF class = "paused" THEN "resume-failed" ELSE class
    /\ Finish(t)
    /\ UNCHANGED <<armed, dialog, dismissed, reloading, link>>

-----------------------------------------------------------------------------
(* Blazor on its own: it loses the connection, tries again, gives up.       *)

Event(connection, newClass, state) ==
    /\ Blazor(connection, newClass, state)
    /\ UNCHANGED <<script, visible, reachable>>

ConnectionDrops ==
    link = "up" /\ Event("retrying", "show", "show") /\ UNCHANGED circuit
BlazorReconnects ==
    /\ link = "retrying" /\ reachable /\ circuit = "alive"
    /\ Event("up", "hide", "hide") /\ UNCHANGED circuit
BlazorRejected ==
    /\ link = "retrying" /\ reachable /\ circuit # "alive"
    /\ Event("retrying", "rejected", "rejected") /\ UNCHANGED circuit
BlazorGivesUp ==
    link = "retrying" /\ Event("failed", "failed", "failed") /\ UNCHANGED circuit
\* The dialog has a Resume button: it is shown for a pause too.
CircuitPauses ==
    link = "up" /\ Event("paused", "paused", "show") /\ circuit' = "persisted"

(* The server. *)

Reply(t, answer) ==
    /\ pc[t] # "idle" /\ reply[t] = "pending"
    /\ reply' = [reply EXCEPT ![t] = answer]
    /\ UNCHANGED <<pc, overlapped, page, visible, link, reachable>>

Unreachable(t) == ~reachable /\ Reply(t, "error") /\ UNCHANGED circuit
AnswerReconnect(t) ==
    /\ reachable /\ pc[t] = "reconnect"
    /\ Reply(t, IF circuit = "alive" THEN "yes" ELSE "no")
    /\ UNCHANGED circuit
\* A circuit that another task has resumed is not there to resume any more;
\* Blazor may notice that it is connected, or pass the refusal on.
AnswerResume(t) ==
    /\ reachable /\ pc[t] # "reconnect"
    /\ \/ circuit # "lost" /\ Reply(t, "yes") /\ circuit' = "alive"
       \/ circuit # "persisted" /\ Reply(t, "no") /\ UNCHANGED circuit

CircuitExpires ==
    /\ link # "up" /\ circuit # "lost"
    /\ circuit' \in {"persisted", "lost"} \ {circuit}
    /\ UNCHANGED <<script, page, visible, link, reachable>>

ReachabilityChanges ==
    reachable' = ~reachable /\ UNCHANGED <<script, page, visible, link, circuit>>

\* The script starts anew, on a new circuit: its activations are gone.
PageLoads ==
    /\ reloading /\ reachable
    /\ pc' = [t \in Tasks |-> "idle"]
    /\ reply' = [t \in Tasks |-> "pending"]
    /\ armed' = FALSE /\ dialog' = FALSE /\ dismissed' = FALSE
    /\ class' = "hide" /\ reloading' = FALSE
    /\ link' = "up" /\ circuit' = "alive" /\ overlapped' = FALSE
    /\ UNCHANGED <<visible, reachable>>

-----------------------------------------------------------------------------

Continue(t) ==
    \/ RetryReconnected(t) \/ RetryRejected(t) \/ RetryResumed(t) \/ RetryReloads(t)
    \/ RetryUnreachable(t) \/ Resumed(t) \/ ResumeReloads(t) \/ ResumeFails(t)
Serve(t) == Unreachable(t) \/ AnswerReconnect(t) \/ AnswerResume(t)
User ==
    \/ DocumentHides \/ DocumentShows \/ Dismiss
    \/ \E t \in Tasks : ClickRetry(t) \/ ClickResume(t)
Environment ==
    \/ ConnectionDrops \/ BlazorReconnects \/ BlazorRejected \/ BlazorGivesUp
    \/ CircuitPauses \/ CircuitExpires \/ ReachabilityChanges \/ PageLoads

Next == User \/ Environment \/ \E t \in Tasks : Continue(t) \/ Serve(t)

\* A call to the server ends, with an exception at the latest when its transport
\* gives up, and the event loop runs what awaits it. Users, servers and networks
\* owe nothing.
Fairness == \A t \in Tasks : WF_vars(Continue(t)) /\ WF_vars(Serve(t))

Spec == Init /\ [][Next]_vars
FairSpec == Spec /\ Fairness

-----------------------------------------------------------------------------
(* Properties.                                                              *)

\* Every variable has its type.
TypeOK ==
    /\ pc \in [Tasks -> Awaits \cup {"idle"}]
    /\ reply \in [Tasks -> {"pending", "yes", "no", "error"}]
    /\ armed \in BOOLEAN /\ dialog \in BOOLEAN /\ dismissed \in BOOLEAN
    /\ reloading \in BOOLEAN
    /\ class \in {"hide", "show", "failed", "rejected", "paused", "resume-failed"}
    /\ visible \in BOOLEAN /\ reachable \in BOOLEAN /\ overlapped \in BOOLEAN
    /\ link \in {"up", "retrying", "failed", "paused"}
    /\ circuit \in {"alive", "persisted", "lost"}

\* When Blazor has given up, somebody still cares: the next time the document
\* becomes visible is waited for, or a retry is under way. No order of clicks,
\* visibility changes and late answers takes the listener away for good, except on
\* a page that is about to be reloaded.
FailureIsWatched ==
    link = "failed" => reloading \/ armed \/ \E t \in Tasks : pc[t] \in Retrying

\* The user is offered the way out that fits: a page that is not connected shows the
\* dialog, with Retry when Blazor has given up and Resume when the circuit is paused,
\* whatever an answer to an earlier click still does to it. Only its user takes the
\* dialog away from such a page, and not for longer than until it is connected again:
\* the next loss shows it anew.
WayOutIsOffered ==
    /\ link = "up" => ~dialog /\ ~dismissed
    /\ link # "up" => (dialog <=> ~dismissed)
    /\ link = "failed" => class = "failed"
    /\ link = "paused" => class \in {"paused", "resume-failed"}

\* A connected page has no listener left that would retry at the next visibility
\* change, unless two activations overlapped: one whose failure arrives after the
\* other's success arms it, and nothing takes it away.
StaleListenerNeedsOverlap == armed /\ link = "up" => overlapped

\* A page that is connected is not thrown away, unless activations overlapped: of two
\* that resume one circuit the second may be refused, and it reloads.
ReloadNeedsOverlap ==
    [][~reloading /\ reloading' /\ link' = "up" => overlapped]_vars

\* A page whose connection was given up recovers without a click: if the server can
\* be reached from some time on and its user keeps leaving it and coming back, it is
\* connected again or reloads.
RecoversUnattended ==
    (<>[]reachable /\ []<>visible /\ []<>~visible)
        => (link = "failed" ~> link = "up" \/ reloading)
=============================================================================
