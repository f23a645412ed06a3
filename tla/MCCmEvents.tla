----------------------------- MODULE MCCmEvents -----------------------------
(***************************************************************************)
(* Instances of CmEvents: a listener, an active and a passive end.         *)
(***************************************************************************)
EXTENDS CmEvents

CONSTANTS t1, t2

Plain == [sync |-> FALSE, afib |-> TRUE, nonblock |-> FALSE, chans |-> 1, routed |-> FALSE,
          loops |-> {t1}, callers |-> {t2}, does |-> {}]

\* One thread gets and acknowledges the events of ids the other creates, resolves
\* and destroys.
Resolving == [Plain EXCEPT !.loops = {t1, t2}, !.callers = {t1, t2}, !.does = {"create", "resolve_addr", "resolve_route", "destroy"}]

\* One thread gets the events of a connection the other makes and ends.
Connecting == [Plain EXCEPT !.routed = TRUE, !.loops = {t1, t2}, !.callers = {t1, t2},
                   !.does = {"connect", "accept", "reject", "disconnect", "destroy"}]

\* The ids of the connection move between two channels.
Migrating == [Plain EXCEPT !.routed = TRUE, !.chans = 2,
                  !.does = {"connect", "accept", "migrate", "destroy"}]

\* Synchronous ids, one thread at each end.
Sync == [Plain EXCEPT !.sync = TRUE, !.chans = 0, !.loops = {}, !.callers = {t1, t2},
             !.does = {"create", "bind", "listen", "resolve_addr", "resolve_route", "destroy"}]

SyncConnecting == [Sync EXCEPT !.routed = TRUE, !.chans = 2,
             !.does = {"connect", "get_request", "accept", "disconnect", "destroy"}]

\* Two threads get events of a channel that does not block.
Polling == [Resolving EXCEPT !.nonblock = TRUE, !.loops = {t1, t2}]

\* A kernel without AF_IB.
NoAfIb == [Resolving EXCEPT !.afib = FALSE, !.does = @ \cup {"bind"}]

AllUses == {Resolving, Connecting, Migrating, Sync, SyncConnecting, Polling, NoAfIb}
=============================================================================
