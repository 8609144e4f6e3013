----------------------------- MODULE InboxSync ------------------------------
(***************************************************************************)
(* A device reading its inbox journal: the shard of module InboxServer,    *)
(* the engine of the client (protocol/src/client.rs, open_record) with the *)
(* cursor of module Cursor, and the host program around the engine.        *)
(*                                                                         *)
(* Two hosts are modelled, they differ in when an opened record reaches    *)
(* the user interface and the disk:                                        *)
(*  - "web"      controller.ts: a record is opened, its events are applied *)
(*               one by one, the state of the engine is written by a       *)
(*               debounced timer and once more before an acknowledgement;  *)
(*  - "desktop"  v2_session.cpp (android runs the same code): the events   *)
(*               of opened records collect in an outbox, the state is      *)
(*               written, the records are acknowledged, and then the       *)
(*               outbox goes to the user interface.                        *)
(*                                                                         *)
(* A record also travels as a live event that may be lost, overtaken or    *)
(* repeat what a page already held.  The process may die at any point and  *)
(* starts again from what is on disk; a write to the disk may fail.        *)
(***************************************************************************)
EXTENDS InboxServer, Cursor

CONSTANTS Host,           \* "web" or "desktop"
          Arrives,        \* the kinds of items that arrive
          Opens,          \* what opening a record of a kind may come to
          SYNC_SCAN,      \* rows a page of msg.inbox.sync looks at (4096)
          MaxPages,       \* pages of one synchronisation (1000)
          MaxCrashes,     \* bound: how often the process dies
          MaxDiskFaults   \* bound: how often writing the state fails

Outcomes == {"ok", "keys", "proto", "held"}

ASSUME SyncAssumption == /\ Host \in {"web", "desktop"}
                         /\ Arrives \subseteq Kinds
                         /\ Opens \in [Kinds -> SUBSET Outcomes]
                         /\ "keys" \notin Opens["sealed"] \cup Opens["service"]
                         /\ SYNC_SCAN \in Nat \ {0}
                         /\ MaxPages \in Nat \ {0}
                         /\ MaxCrashes \in Nat
                         /\ MaxDiskFaults \in Nat

VARIABLES live,      \* numbers on their way as live events
          pc,        \* where the host is
          page,      \* numbers of the current page still to open
          more,      \* the page's flag: there is more after it
          pages,     \* pages fetched by this synchronisation, 0 outside one
          cursor,    \* the engine's cursor, in memory
          deferred,  \* pending_group: envelopes waiting for their keys
          seen,      \* the engine's replay guard: envelopes opened before
          outbox,    \* opened records whose events are not applied yet
          dirty,     \* web: the debounced writer has something to write
          disk,      \* the state on disk: [applied, deferred, seen]
          shown,     \* history: numbers whose events were applied
          shows,     \* history: how often each number was applied
          skipped,   \* history: numbers given up, with a line in the log
          lost,      \* history: opened, passed on disk, never applied
          crashes, faults

engine == <<cursor, deferred, seen, outbox>>
history == <<shown, shows, skipped, lost>>
bounds == <<crashes, faults>>
clientVars == <<live, pc, page, more, pages, engine, dirty, disk, history,
                bounds>>
vars == <<serverVars, clientVars>>

Init == /\ ServerInit
        /\ live = {}
        /\ pc = "idle"
        /\ page = {}
        /\ more = FALSE
        /\ pages = 0
        /\ cursor = FromDisk(0)
        /\ deferred = {}
        /\ seen = {}
        /\ outbox = {}
        /\ dirty = FALSE
        /\ disk = [applied |-> 0, deferred |-> {}, seen |-> {}]
        /\ shown = {}
        /\ shows = [s \in Seqs |-> 0]
        /\ skipped = {}
        /\ lost = {}
        /\ crashes = 0
        /\ faults = 0

-----------------------------------------------------------------------------
(* The shard's side                                                        *)

\* append: the record is committed, then published as a live event.
Deliver(k) ==
  /\ AppendItem(k)
  /\ live' = live \cup {nextSeq + 1}
  /\ UNCHANGED <<pc, page, more, pages, engine, dirty, disk, history, bounds>>

\* publish_live is fire and forget: the event may never arrive.
LiveLost(s) ==
  /\ s \in live
  /\ live' = live \ {s}
  /\ UNCHANGED <<serverVars, pc, page, more, pages, engine, dirty, disk,
                 history, bounds>>

Shard == ServerStep /\ UNCHANGED clientVars

-----------------------------------------------------------------------------
(* Opening a record                                                        *)

\* A slip: the numbers done behind a hole are not looked at.
MustOpenAgain(s) == s > cursor.applied

\* open_record tells records that are done by the cursor alone.
MustOpen(s) == ~IsDone(cursor, s)

\* The envelopes among the numbers S: the ratchet and the replay guard move on
\* when one opens, so it cannot be opened again.  Service records have none.
Envelopes(S) == {s \in S : items[s] \in Sent}

\* ok: the events go to the host.  An epoch key in the record, or the group
\* journal it makes the host read, also opens the deferred envelopes D and
\* gives up E (retry_pending_groups).
Opened(s, D, E) ==
  /\ cursor' = MarkApplied(cursor, s)
  /\ outbox' = outbox \cup {s} \cup D
  /\ seen' = seen \cup Envelopes({s} \cup D)
  /\ deferred' = deferred \ (D \cup E)
  /\ skipped' = skipped \cup E

\* keys: the keys of the epoch are not there yet.  The envelope is put aside
\* and the record counts as applied.
PutAside(s) ==
  /\ cursor' = MarkApplied(cursor, s)
  /\ deferred' = deferred \cup {s}
  /\ UNCHANGED <<outbox, seen, skipped>>

\* proto: the record does not open, or was opened before; SYNC-2 counts.
Failed(s) ==
  /\ cursor' = MarkFailed(cursor, s)
  /\ skipped' = IF Exhausts(cursor, s) THEN skipped \cup {s} ELSE skipped
  /\ UNCHANGED <<outbox, deferred, seen>>

\* held: the host cannot get what the engine needs, or the record does not
\* decode.  open_record returns an error and the cursor is not told.
Held == UNCHANGED <<engine, skipped>>

\* What opening s may come to now.
May(s) == IF s \in seen THEN {"proto"} ELSE Opens[items[s]]

OpenRecord(s) ==
  \/ /\ ~MustOpen(s)
     /\ UNCHANGED <<engine, skipped>>
  \/ /\ MustOpen(s)
     /\ \/ /\ "ok" \in May(s)
           /\ \E D \in SUBSET (deferred \ seen) :
              \E E \in SUBSET (deferred \ D) :
                /\ items[s] = "group" => D \cup E = {}
                /\ Opened(s, D, E)
        \/ "keys" \in May(s) /\ PutAside(s)
        \/ "proto" \in May(s) /\ Failed(s)
        \/ "held" \in May(s) /\ Held

\* The web host applies the events of a record before it goes on.
AfterOpen(next) == IF Host = "web" /\ outbox' # {} THEN "apply" ELSE next

\* The web host marks the state for writing once the record is worked off; a
\* record that is held leaves before the mark.
MarkDirty(s) ==
  LET held == MustOpen(s) /\ cursor' = cursor
  IN  dirty' = (dirty \/ (Host = "web" /\ ~held /\ pc' # "apply"))

\* A live event is opened between two synchronisations.  The web host marks
\* the state for writing, the desktop host writes and acknowledges at once.
OpenLive(s) ==
  /\ pc = "idle"
  /\ s \in live
  /\ live' = live \ {s}
  /\ OpenRecord(s)
  /\ pc' = AfterOpen(IF Host = "web" THEN "idle" ELSE "persist")
  /\ MarkDirty(s)
  /\ UNCHANGED <<serverVars, page, more, pages, disk, shown, shows, lost,
                 bounds>>

\* The next record of the page, in the order of the numbers.
OpenNext ==
  /\ pc = "open"
  /\ page # {}
  /\ LET s == CHOOSE t \in page : \A u \in page : t <= u
     IN  /\ OpenRecord(s)
         /\ page' = page \ {s}
         /\ pc' = AfterOpen("open")
         /\ MarkDirty(s)
  /\ UNCHANGED <<serverVars, live, more, pages, disk, shown, shows, lost,
                 bounds>>

\* An event reaches the user interface.  The web host may fail to apply one:
\* it says so in its log and goes on.
ApplyEvent(s, fails) ==
  /\ s \in outbox
  /\ \/ Host = "web" /\ pc = "apply"
     \/ Host = "desktop" /\ pc = "idle" /\ ~fails
  /\ outbox' = outbox \ {s}
  /\ IF fails
     THEN /\ skipped' = skipped \cup {s}
          /\ UNCHANGED <<shown, shows>>
     ELSE /\ shown' = shown \cup {s}
          /\ shows' = [shows EXCEPT ![s] = @ + 1]
          /\ UNCHANGED skipped
  /\ pc' = IF pc = "apply" /\ outbox' = {}
           THEN IF pages > 0 THEN "open" ELSE "idle"
           ELSE pc
  /\ dirty' = (dirty \/ (pc = "apply" /\ outbox' = {}))
  /\ UNCHANGED <<serverVars, live, page, more, pages, cursor, deferred, seen,
                 disk, lost, bounds>>

-----------------------------------------------------------------------------
(* Synchronisation                                                         *)

\* syncAll starts, after a connection came up.
StartSync ==
  /\ pc = "idle"
  /\ pc' = "fetch"
  /\ UNCHANGED <<serverVars, live, page, more, pages, engine, dirty, disk,
                 history, bounds>>

\* sync_page: the first SYNC_SCAN rows after the cursor, cut where the byte
\* budget of the page ends, at least one of them.
Rows == {s \in log : s > cursor.applied}
Scan == {s \in Rows : Cardinality({t \in Rows : t <= s}) <= SYNC_SCAN}

FetchPage ==
  /\ pc = "fetch"
  /\ \/ Scan = {} /\ page' = {} /\ more' = FALSE
     \/ \E last \in Scan :
          /\ page' = {s \in Scan : s <= last}
          /\ more' = (page' # Scan \/ Cardinality(Scan) = SYNC_SCAN)
  /\ pages' = pages + 1
  /\ pc' = "open"
  /\ UNCHANGED <<serverVars, live, engine, dirty, disk, history, bounds>>

\* The request for a page fails: the synchronisation is given up.
FetchFails ==
  /\ pc = "fetch"
  /\ pc' = "idle"
  /\ pages' = 0
  /\ UNCHANGED <<serverVars, live, page, more, engine, dirty, disk, history,
                 bounds>>

\* A slip: the last page is acknowledged before the state is written.
EndPageAcksFirst ==
  /\ pc = "open"
  /\ page = {}
  /\ pc' = IF more /\ pages < MaxPages THEN "fetch" ELSE "ack"
  /\ UNCHANGED <<serverVars, live, page, more, pages, engine, dirty, disk,
                 history, bounds>>

\* The page is worked off: the next one, or the state is written.
EndPage ==
  /\ pc = "open"
  /\ page = {}
  /\ pc' = IF more /\ pages < MaxPages THEN "fetch" ELSE "persist"
  /\ UNCHANGED <<serverVars, live, page, more, pages, engine, dirty, disk,
                 history, bounds>>

-----------------------------------------------------------------------------
(* Disk and acknowledgement                                                *)

Snapshot == [applied |-> cursor.applied, deferred |-> deferred, seen |-> seen]

\* The state of the engine goes to disk, or writing it fails, which is logged.
WriteState ==
  \/ disk' = Snapshot /\ UNCHANGED faults
  \/ faults < MaxDiskFaults /\ faults' = faults + 1 /\ UNCHANGED disk

\* Written between other steps: by the timer of the web host, whatever the
\* host is waiting for just then, or by another operation of the desktop host.
SaveState ==
  /\ \/ Host = "web" /\ dirty
     \/ Host = "desktop" /\ pc = "idle"
  /\ WriteState
  /\ dirty' = FALSE
  /\ UNCHANGED <<serverVars, live, pc, page, more, pages, engine, history,
                 crashes>>

\* Written before the acknowledgement.
Persist ==
  /\ pc = "persist"
  /\ WriteState
  /\ dirty' = FALSE
  /\ pc' = "ack"
  /\ UNCHANGED <<serverVars, live, page, more, pages, engine, history,
                 crashes>>

\* msg.inbox.ack for everything up to the cursor; the host does not look
\* whether it arrived.
Ack ==
  /\ pc = "ack"
  /\ AckTo(cursor.applied)
  /\ pc' = "idle"
  /\ pages' = 0
  /\ UNCHANGED <<live, page, more, engine, dirty, disk, history, bounds>>

AckLost ==
  /\ pc = "ack"
  /\ pc' = "idle"
  /\ pages' = 0
  /\ UNCHANGED <<serverVars, live, page, more, engine, dirty, disk, history,
                 bounds>>

\* After a restart s is asked for again, or waits on disk, and still opens.
Recoverable(s) == /\ s > disk.applied \/ s \in disk.deferred
                  /\ s \notin disk.seen

\* The process dies and starts again from the state on disk.
Crash ==
  /\ crashes < MaxCrashes
  /\ crashes' = crashes + 1
  /\ cursor' = FromDisk(disk.applied)
  /\ deferred' = disk.deferred
  /\ seen' = disk.seen
  /\ lost' = lost \cup {s \in outbox \ shown : ~Recoverable(s)}
  /\ outbox' = {}
  /\ live' = {}
  /\ page' = {}
  /\ pages' = 0
  /\ dirty' = FALSE
  /\ pc' = "idle"
  /\ UNCHANGED <<serverVars, more, disk, shown, shows, skipped, faults>>

HostStep == \/ OpenNext \/ StartSync \/ FetchPage \/ FetchFails \/ EndPage
            \/ SaveState \/ Persist \/ Ack \/ AckLost
            \/ \E s \in Seqs : \/ OpenLive(s)
                               \/ \E fails \in BOOLEAN : ApplyEvent(s, fails)

Next == \/ \E k \in Arrives : Deliver(k)
        \/ \E s \in Seqs : LiveLost(s)
        \/ Shard
        \/ HostStep
        \/ Crash

Spec == Init /\ [][Next]_vars

\* The program keeps working off what it has, keeps synchronising (it does so
\* on every connection), and a server that is asked again and again answers
\* again and again.
Fairness == /\ WF_vars(OpenNext)
            /\ WF_vars(EndPage)
            /\ WF_vars(Persist)
            /\ WF_vars(StartSync)
            /\ WF_vars(\E s \in Seqs : ApplyEvent(s, FALSE))
            /\ SF_vars(FetchPage)
            /\ SF_vars(Ack)

FairSpec == Spec /\ Fairness

-----------------------------------------------------------------------------
(* Properties                                                              *)

\* The state of the host and of the engine has its type.
TypeOK == /\ ServerTypeOK
          /\ live \subseteq 1..nextSeq
          /\ pc \in {"idle", "fetch", "open", "apply", "persist", "ack"}
          /\ page \subseteq 1..nextSeq
          /\ more \in BOOLEAN
          /\ pages \in 0..MaxPages
          /\ cursor \in CursorType
          /\ deferred \subseteq 1..nextSeq
          /\ outbox \subseteq 1..nextSeq
          /\ dirty \in BOOLEAN
          /\ seen \subseteq 1..nextSeq
          /\ disk \in [applied : Positions, deferred : SUBSET Seqs,
                       seen : SUBSET Seqs]
          /\ shown \subseteq 1..nextSeq
          /\ shows \in [Seqs -> Nat]
          /\ skipped \subseteq 1..nextSeq
          /\ lost \subseteq 1..nextSeq
          /\ crashes \in 0..MaxCrashes
          /\ faults \in 0..MaxDiskFaults

\* What the host has dealt with, as memory and as the disk remember it.
Handled == shown \cup skipped \cup lost \cup outbox \cup deferred
HandledOnDisk == shown \cup skipped \cup lost \cup outbox \cup disk.deferred

\* The cursor (SYNC-1) never passes a record that the host has not been given,
\* has not put aside and has not given up: not in memory, not on disk, not
\* through restarts, duplicates and records that overtake each other.
CursorPassesOnlyHandled ==
  /\ 1..cursor.applied \subseteq Handled
  /\ cursor.ahead \subseteq Handled
  /\ 1..disk.applied \subseteq HandledOnDisk

\* The state is written before the acknowledgement: as long as writing works,
\* the server never hears of a record that a restart would ask for again.
AckBehindDisk == faults = 0 => acked <= disk.applied

\* End to end: a record that was accepted is in the journal, or was dealt with
\* by the host, or was deleted unread (TTL, hidden).  The sweep of
\* acknowledged rows never takes a record the device still needs.
NoSilentLoss ==
  faults = 0 => 1..nextSeq \subseteq log \cup gone \cup HandledOnDisk

\* A record is applied at most once in the life of a process, although it may
\* come as a live event, on several pages and out of the deferred envelopes.
ShownOncePerLife == \A s \in Seqs : shows[s] <= 1 + crashes

\* SYNC-1 as conformance/README.md states it: the cursor that survives a
\* restart passes only what is decrypted and in the user interface; so a
\* restart loses nothing.
NothingLost == lost = {}

\* SYNC-2: what cannot be read does not hold the cursor for ever; every record
\* is acknowledged in the end.
CursorCatchesUp == \A s \in Seqs : (s <= nextSeq) ~> (s <= acked)

\* Numbers without a record count as passed (mark_gap_until), so a record that
\* stays in the journal is read in the end, whatever is missing before it.
StoredRecordsAreRead ==
  \A s \in Seqs : (s \in log) ~> (s \notin log \/ s \in Handled)
=============================================================================
