---------------------------- MODULE ClientStream ----------------------------
(***************************************************************************)
(* The connection of the web client to the event stream (public/app.js):   *)
(* openEventStream with its ticket, the error handler with its reconnect   *)
(* timer, the refresh after a reconnect, the browser's online, offline and *)
(* visibility events, login and logout.                                    *)
(*                                                                         *)
(* An action runs from one await or event to the next.  EventSource is the *)
(* browser's: it fires no event after close(), reports an error when its   *)
(* connection breaks and tries once more by itself with its used ticket,   *)
(* which the server refuses.  The delay of the timer is not modelled.      *)
(***************************************************************************)
EXTENDS Naturals, FiniteSets

CONSTANTS
  MaxSources,  \* EventSource objects
  MaxFaults,   \* requests that fail and connections that break
  MaxEvents,   \* events of the browser
  MaxLogins

\* Assumed of the constants.
StreamAssumption == {MaxSources, MaxFaults, MaxEvents, MaxLogins} \subseteq Nat

Source == 1..MaxSources

VARIABLES
  authenticated,  \* state.authenticated
  status,         \* state.connectionState
  source,         \* state.eventSource, 0 when null
  manual,         \* state.manualEventSourceClose
  timer,          \* state.reconnectTimer is set
  es,             \* the EventSource objects so far, in the order of creation
  tickets,        \* ticket requests under way
  probes,         \* calls of /api/me of timers that fired
  entering,       \* afterLogin awaits its first loads
  refreshing,     \* refreshes under way
  refreshFailed,  \* the last refresh failed
  phantom,        \* an error of another source has closed the current one
  used            \* how often each bound was used

vars == <<authenticated, status, source, manual, timer, es, tickets, probes, entering,
          refreshing, refreshFailed, phantom, used>>

Alive == {"connecting", "open", "retrying"}

May(kind, bound) == used[kind] < bound /\ used' = [used EXCEPT ![kind] = @ + 1]
Fault == May("faults", MaxFaults)
Event == May("events", MaxEvents)

ClosedSources == [s \in DOMAIN es |-> IF s = source THEN "closed" ELSE es[s]]

\* closeEventStream, without the status
CloseEventStream ==
  /\ es' = ClosedSources
  /\ manual' = (manual \/ source # 0)
  /\ source' = 0
  /\ timer' = FALSE

\* openEventStream up to its ticket.
StartEventStream ==
  /\ CloseEventStream
  /\ status' = "connecting"
  /\ tickets' = tickets + 1

\* clearSession
ClearSession ==
  /\ CloseEventStream
  /\ status' = "offline"
  /\ authenticated' = FALSE

-----------------------------------------------------------------------------
(* Login and logout.                                                       *)

\* setSession and the loads afterLogin waits for.
Login ==
  /\ ~authenticated /\ ~entering /\ May("logins", MaxLogins)
  /\ authenticated' = TRUE /\ entering' = TRUE
  /\ UNCHANGED <<status, source, manual, timer, es, tickets, probes, refreshing, refreshFailed, phantom>>

Entered ==
  /\ entering /\ entering' = FALSE
  /\ StartEventStream
  /\ UNCHANGED <<authenticated, probes, refreshing, refreshFailed, phantom, used>>

\* A load fails: afterLogin throws, the user stays logged in without a stream.
EnterFails ==
  /\ entering /\ entering' = FALSE /\ Fault
  /\ UNCHANGED <<authenticated, status, source, manual, timer, es, tickets, probes, refreshing,
                 refreshFailed, phantom>>

\* logout, or any request that is answered with 401.
Logout ==
  /\ authenticated /\ Event
  /\ ClearSession
  /\ UNCHANGED <<tickets, probes, entering, refreshing, refreshFailed, phantom>>

-----------------------------------------------------------------------------
(* Events of the browser.                                                  *)

BrowserOnline ==
  /\ authenticated /\ Event
  /\ StartEventStream
  /\ UNCHANGED <<authenticated, probes, entering, refreshing, refreshFailed, phantom>>

BrowserOffline ==
  /\ Event
  /\ status' = "offline"
  /\ UNCHANGED <<authenticated, source, manual, timer, es, tickets, probes, entering, refreshing,
                 refreshFailed, phantom>>

\* visibilitychange
PageVisible ==
  /\ authenticated /\ status # "online" /\ ~timer /\ Event
  /\ StartEventStream
  /\ UNCHANGED <<authenticated, probes, entering, refreshing, refreshFailed, phantom>>

-----------------------------------------------------------------------------
(* openEventStream after its await, and the handlers of a source.          *)

NewSource ==
  /\ es' = [s \in 1..Cardinality(DOMAIN es) + 1 |-> IF s \in DOMAIN es THEN es[s] ELSE "connecting"]
  /\ source' = Cardinality(DOMAIN es) + 1
  /\ manual' = FALSE

\* Mutant of TicketArrives: the session is not checked after the await.
TicketTrusted ==
  /\ tickets > 0 /\ tickets' = tickets - 1
  /\ Cardinality(DOMAIN es) < MaxSources
  /\ NewSource
  /\ UNCHANGED <<authenticated, status, timer, probes, entering, refreshing, refreshFailed, phantom, used>>

\* The new source replaces whatever another call has installed meanwhile.
TicketArrives ==
  /\ tickets > 0 /\ tickets' = tickets - 1
  /\ Cardinality(DOMAIN es) < MaxSources
  /\ IF authenticated THEN NewSource ELSE UNCHANGED <<es, source, manual>>
  /\ UNCHANGED <<authenticated, status, timer, probes, entering, refreshing, refreshFailed, phantom, used>>

\* startEventStream gives up: nothing is scheduled.
TicketFails ==
  /\ tickets > 0 /\ tickets' = tickets - 1 /\ Fault
  /\ status' = "offline"
  /\ UNCHANGED <<authenticated, source, manual, timer, es, probes, entering, refreshing,
                 refreshFailed, phantom>>

SourceOpens(s) ==
  /\ s \in DOMAIN es /\ es[s] = "connecting"
  /\ es' = [es EXCEPT ![s] = "open"]
  /\ status' = "online"
  /\ UNCHANGED <<authenticated, source, manual, timer, tickets, probes, entering, refreshing,
                 refreshFailed, phantom, used>>

\* The error handler of source s closes the source that is current, whichever
\* it is, and sets the timer.
Handled(s, broken) ==
  IF manual \/ ~authenticated
  THEN es' = broken /\ UNCHANGED <<source, manual, status, timer, phantom>>
  ELSE /\ es' = [t \in DOMAIN es |-> IF t = source THEN "closed" ELSE broken[t]]
       /\ phantom' = (phantom \/ source \notin {0, s})
       /\ source' = 0
       /\ status' = "reconnecting"
       /\ timer' = TRUE
       /\ UNCHANGED manual

\* The connection of a source breaks or is refused.
SourceErrors(s) ==
  /\ s \in DOMAIN es /\ es[s] \in Alive
  /\ IF es[s] = "retrying" THEN UNCHANGED used ELSE Fault
  /\ Handled(s, [es EXCEPT ![s] = IF @ = "open" THEN "retrying" ELSE "failed"])
  /\ UNCHANGED <<authenticated, tickets, probes, entering, refreshing, refreshFailed>>

-----------------------------------------------------------------------------
(* The timer.                                                              *)

TimerFires ==
  /\ timer /\ timer' = FALSE
  /\ probes' = IF authenticated THEN probes + 1 ELSE probes
  /\ UNCHANGED <<authenticated, status, source, manual, es, tickets, entering, refreshing,
                 refreshFailed, phantom, used>>

\* Mutant of Probed: a timer that fired only asks whether the session lives.
ProbedOnce ==
  /\ probes > 0 /\ probes' = probes - 1
  /\ UNCHANGED <<authenticated, status, source, manual, timer, es, tickets, refreshing,
                 entering, refreshFailed, phantom, used>>

\* /api/me is answered, or fails: the stream is opened again, and conversations
\* are loaded without waiting for it.
Probed ==
  /\ probes > 0 /\ probes' = probes - 1
  /\ IF authenticated
     THEN StartEventStream /\ refreshing' = refreshing + 1
     ELSE UNCHANGED <<status, source, manual, timer, es, tickets, refreshing>>
  /\ UNCHANGED <<authenticated, entering, refreshFailed, phantom, used>>

\* ... or the session has ended.
SessionEnded ==
  /\ probes > 0 /\ probes' = probes - 1 /\ Fault
  /\ IF authenticated THEN ClearSession ELSE UNCHANGED <<authenticated, status, source, manual, timer, es>>
  /\ UNCHANGED <<tickets, entering, refreshing, refreshFailed, phantom>>

Refreshed ==
  /\ refreshing > 0 /\ refreshing' = refreshing - 1
  /\ refreshFailed' = FALSE
  /\ UNCHANGED <<authenticated, status, source, manual, timer, es, tickets, probes, entering, phantom, used>>

RefreshFails ==
  /\ refreshing > 0 /\ refreshing' = refreshing - 1 /\ Fault
  /\ refreshFailed' = TRUE
  /\ UNCHANGED <<authenticated, status, source, manual, timer, es, tickets, probes, entering, phantom>>

-----------------------------------------------------------------------------

Init ==
  /\ authenticated = FALSE /\ entering = FALSE
  /\ status = "offline" /\ source = 0 /\ manual = FALSE /\ timer = FALSE
  /\ es = [s \in {} |-> "closed"]
  /\ tickets = 0 /\ probes = 0 /\ refreshing = 0 /\ refreshFailed = FALSE /\ phantom = FALSE
  /\ used = [kind \in {"faults", "events", "logins"} |-> 0]

Progress ==
  \/ Entered \/ TicketArrives \/ TimerFires \/ Probed \/ Refreshed
  \/ \E s \in Source : SourceOpens(s)

Next ==
  \/ Login \/ EnterFails \/ Logout
  \/ BrowserOnline \/ BrowserOffline \/ PageVisible
  \/ Progress
  \/ TicketFails \/ \E s \in Source : SourceErrors(s)
  \/ SessionEnded \/ RefreshFails

Spec == Init /\ [][Next]_vars

\* Requests are answered, timers fire and connections are established.
FairSpec == Spec /\ WF_vars(Progress)

-----------------------------------------------------------------------------
(* Properties.                                                             *)

\* Every variable keeps its type, and the current source is one that lives.
TypeOK ==
  /\ {authenticated, entering, manual, timer, refreshFailed, phantom} \subseteq BOOLEAN
  /\ status \in {"offline", "connecting", "online", "reconnecting"}
  /\ source \in {0} \cup DOMAIN es
  /\ \A s \in DOMAIN es : es[s] \in Alive \cup {"failed", "closed"}
  /\ source # 0 => es[source] \in {"connecting", "open"}
  /\ {tickets, probes, refreshing} \subseteq Nat

\* No call has ever replaced a source that lived.
NoneReplaced == \A s \in DOMAIN es : s # source => es[s] = "closed"

\* What the page shows is what happens: "reconnecting" (the text "trying to
\* reconnect") has a timer or an attempt, whatever calls overlap, and "online"
\* an open source, unless overlapping calls have left a source behind whose
\* events still set the state.
StatusIsTrue ==
  /\ status = "reconnecting" => timer \/ probes > 0
  /\ status = "online" /\ NoneReplaced => source # 0 /\ es[source] = "open"

\* A logout leaves no timer and no current source behind, also when tickets or
\* attempts under way are answered after it.
LogoutStays == ~authenticated => ~timer /\ source = 0

\* A stale error event of another source does not take the current one down
\* and schedule a reconnect (the comment in closeEventStream).
NoPhantom == ~phantom

\* An attempt comes to an end: the page does not show "connecting" or
\* "reconnecting" for ever.
AttemptsEnd ==
  authenticated /\ status \in {"connecting", "reconnecting"}
    ~> status \in {"online", "offline"} \/ ~authenticated

\* A page that shows that it reconnects gets its stream back, or is logged out:
\* the texts of the outbox promise that what waits is then sent.
Reconnects == status = "reconnecting" ~> status = "online" \/ ~authenticated

\* A refresh that failed is made up for (the comment at the refresh).
RefreshRetried == refreshFailed ~> ~refreshFailed \/ ~authenticated

-----------------------------------------------------------------------------
(* What makes the above inductive.                                         *)

\* Sources are numbered in the order in which they were created, and the current
\* one belongs to a session and is not being closed.
Shape ==
  /\ \E n \in Nat : es \in [1..n -> Alive \cup {"failed", "closed"}]
  /\ source # 0 => ~manual /\ authenticated

IInv ==
  /\ TypeOK /\ Shape /\ StatusIsTrue /\ LogoutStays
  /\ ~authenticated => status # "reconnecting"
=============================================================================
