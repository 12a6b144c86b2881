-------------------------- MODULE DirectoryListing --------------------------
(***************************************************************************)
(* A service that watches a directory, and its client                      *)
(* (DirectoryListingService.cpp, DirectoryListingClient.cpp).              *)
(*                                                                         *)
(* updateEntries reads the directory only if it has changed since the last *)
(* time, to the second, and it takes time: files come and go between the   *)
(* entries it reads.  It runs under the _mutex of the service, in its      *)
(* thread or in a call of list.  A file is known with its modification     *)
(* time.                                                                   *)
(*                                                                         *)
(* The service starts to watch when it is made; a client comes later, from *)
(* the description of the service, and what was notified before it was     *)
(* connected is lost to it.                                                *)
(***************************************************************************)
EXTENDS Integers, Sequences

CONSTANTS
    File,
    MaxTime            \* the clock, in seconds, ends here

ASSUME ClockAssumption == MaxTime \in Nat \ {0}

Absent == -1
Time == 0 .. MaxTime

VARIABLES
    now,               \* the clock
    dir,               \* st_mtime of the files in the directory (operating system)
    dirTime,           \* st_mtime of the directory
    updating,          \* updateEntries is running, under the _mutex of the service
    lastChecked,       \* _lastChecked
    unread,            \* the entries readdir has not given yet
    currEntries,
    knownEntries,      \* _knownEntries of the service
    connected,         \* the client has subscribed to the notifications
    notes,             \* notifications underway to the client
    clientEntries,     \* the files in _knownEntries of the client
    shown,             \* the entries its listener has
    erased,            \* the loop over _knownEntries has erased an entry
    overlooked,        \* history: the files whose coming or going the test of
                       \* updateEntries is not bound to show (see RescanDue)
    unheard            \* history: the files known when the client was connected

clientVars == <<connected, clientEntries, shown>>
dirVars == <<now, dir, dirTime, updating, lastChecked, unread, currEntries, knownEntries, notes,
             clientVars, erased, overlooked, unheard>>

Names(entries) == {f \in File : entries[f] # Absent}

\* _lastChecked is not initialized.  If it is later than the directory the files
\* already there are not looked for, if it is later than now none is.
DirInit ==
    /\ now = 1
    /\ dir \in [File -> {Absent, 0}]
    /\ dirTime \in {0, 1}
    /\ updating = FALSE
    /\ lastChecked \in Time
    /\ unread = {} /\ currEntries = {}
    /\ knownEntries = [f \in File |-> Absent]
    /\ connected = FALSE
    /\ notes = <<>>
    /\ clientEntries = {}
    /\ shown = {}
    /\ erased = FALSE
    /\ overlooked = IF lastChecked <= dirTime THEN {}
                    ELSE IF lastChecked <= now THEN Names(dir) ELSE File
    /\ unheard = {}

-----------------------------------------------------------------------------
(* The file system: a directory changes when files come and go.               *)

\* The entries updateEntries has read that are no longer what it has read.
Outdated == {f \in File \ unread : f \in Names(dir) <=> f \notin currEntries}

Tick ==
    /\ now < MaxTime
    /\ now' = now + 1
    /\ overlooked' = IF updating THEN overlooked \cup Outdated ELSE overlooked
    /\ UNCHANGED <<dir, dirTime, updating, lastChecked, unread, currEntries, knownEntries, notes,
                   clientVars, erased, unheard>>

\* A file appears, or disappears, or is written to.
Change(f, time) ==
    /\ time \in {Absent, now}
    /\ dir[f] # time
    /\ dir' = [dir EXCEPT ![f] = time]
    /\ dirTime' = IF Absent \in {dir[f], time} THEN now ELSE dirTime
    /\ UNCHANGED <<now, updating, lastChecked, unread, currEntries, knownEntries, notes, clientVars,
                   erased, overlooked, unheard>>

-----------------------------------------------------------------------------
(* updateEntries.                                                             *)

\* Mutant: a directory that changed in the second of the last check is old.
ChangedAfterLastCheck == dirTime > lastChecked

ChangedSinceLastCheck == dirTime >= lastChecked

\* There are changes in the directory.
UpdateStart ==
    /\ ~updating
    /\ ChangedSinceLastCheck
    /\ updating' = TRUE
    /\ unread' = File
    /\ currEntries' = {}
    /\ erased' = FALSE
    /\ overlooked' = {}
    /\ UNCHANGED <<now, dir, dirTime, lastChecked, knownEntries, notes, clientVars, unheard>>

Note(operation, f) == [operation |-> operation, file |-> f]

\* A notification reaches the client that is connected.
Notified(operation, f) == IF connected THEN Append(notes, Note(operation, f)) ELSE notes

\* The entry of readdir, if there is (still) a file; filter takes all.
ReadEntry(f) ==
    /\ updating
    /\ f \in unread
    /\ unread' = unread \ {f}
    /\ IF dir[f] = Absent
       THEN UNCHANGED <<currEntries, knownEntries, notes>>
       ELSE /\ currEntries' = currEntries \cup {f}
            /\ knownEntries' = [knownEntries EXCEPT ![f] = dir[f]]
            /\ notes' = IF knownEntries[f] = Absent THEN Notified("added", f)
                        ELSE IF knownEntries[f] < dir[f] THEN Notified("modified", f)
                        ELSE notes
    /\ UNCHANGED <<now, dir, dirTime, updating, lastChecked, clientVars, erased, overlooked, unheard>>

\* A known entry that was not seen this time around.
RemoveEntry(f) ==
    /\ updating /\ unread = {}
    /\ f \in Names(knownEntries) \ currEntries
    /\ notes' = Notified("removed", f)
    /\ knownEntries' = [knownEntries EXCEPT ![f] = Absent]
    /\ erased' = TRUE
    /\ unheard' = unheard \ {f}
    /\ UNCHANGED <<now, dir, dirTime, updating, lastChecked, unread, currEntries, clientVars,
                   overlooked>>

\* Remember when the directory was last checked.  The iterator goes on from an
\* entry after it was erased, which is undefined: it may step over others.
UpdateDone ==
    LET unseen == Names(knownEntries) \ currEntries
    IN  /\ updating /\ unread = {}
        /\ unseen = {} \/ erased
        /\ updating' = FALSE
        /\ lastChecked' = now
        /\ overlooked' = overlooked \cup unseen
        /\ UNCHANGED <<now, dir, dirTime, unread, currEntries, knownEntries, notes, clientVars,
                       erased, unheard>>

-----------------------------------------------------------------------------
(* The client.                                                                *)

\* The subscriber of the client is connected to the publisher of the service.
Connect ==
    /\ ~connected
    /\ connected' = TRUE
    /\ unheard' = Names(knownEntries)
    /\ UNCHANGED <<now, dir, dirTime, updating, lastChecked, unread, currEntries, knownEntries, notes,
                   clientEntries, shown, erased, overlooked>>

\* list of the service goes through the known files without its _mutex, so also
\* during an update, and the client keeps the entry of one that matches.
List(f) ==
    /\ f \in Names(knownEntries)
    /\ clientEntries' = clientEntries \cup {f}
    /\ UNCHANGED <<now, dir, dirTime, updating, lastChecked, unread, currEntries, knownEntries, notes,
                   connected, shown, erased, overlooked, unheard>>

\* Mutant: only files the client has no entry of are new to the listener.
EntryAddedOnce ==
    LET f == Head(notes).file
    IN  /\ Head(notes).operation = "added"
        /\ clientEntries' = clientEntries \cup {f}
        /\ shown' = IF f \in clientEntries THEN shown ELSE shown \cup {f}

\* An entry is never replaced: the listener may be given an older one.
EntryAdded ==
    LET f == Head(notes).file
    IN  /\ Head(notes).operation = "added"
        /\ clientEntries' = clientEntries \cup {f}
        /\ shown' = shown \cup {f}

EntryModified == Head(notes).operation = "modified" /\ UNCHANGED <<clientEntries, shown>>

\* The listener is told if the client has the entry; the entry stays.
EntryRemoved ==
    LET f == Head(notes).file
    IN  /\ Head(notes).operation = "removed"
        /\ shown' = IF f \in clientEntries THEN shown \ {f} ELSE shown
        /\ UNCHANGED clientEntries

ClientReceive ==
    /\ notes # <<>>
    /\ notes' = Tail(notes)
    /\ EntryAdded \/ EntryModified \/ EntryRemoved
    /\ UNCHANGED <<now, dir, dirTime, updating, lastChecked, unread, currEntries, knownEntries,
                   connected, erased, overlooked, unheard>>

DirNext ==
    \/ Tick
    \/ \E f \in File, time \in Time \cup {Absent} : Change(f, time)
    \/ UpdateStart
    \/ \E f \in File : ReadEntry(f)
    \/ \E f \in File : RemoveEntry(f)
    \/ UpdateDone
    \/ Connect
    \/ \E f \in File : List(f)
    \/ ClientReceive

DirSpec == DirInit /\ [][DirNext]_dirVars

-----------------------------------------------------------------------------
(* Properties.                                                                *)

DirTypeOK ==
    /\ now \in Time /\ dirTime \in Time /\ lastChecked \in Time
    /\ {dir, knownEntries} \subseteq [File -> Time \cup {Absent}]
    /\ {updating, erased, connected} \subseteq BOOLEAN
    /\ unread \subseteq File /\ currEntries \subseteq File /\ overlooked \subseteq File
    /\ unheard \subseteq Names(knownEntries)
    /\ shown \subseteq clientEntries /\ clientEntries \subseteq File

(* A file that has come or gone is found by the next updateEntries, as the    *)
(* directory has changed in or after the second of the last check.  There are *)
(* three exceptions, each for the files concerned and until the next update:  *)
(* files the first value of _lastChecked, which nothing has set, is later     *)
(* than (all if it is later than now); files that came or went after an       *)
(* update had read their entry, if the clock went on before it ended; and     *)
(* files the loop that removes entries stepped over.                          *)
RescanDue ==
    ~updating /\ Names(dir) \ overlooked # Names(knownEntries) \ overlooked
        => ChangedSinceLastCheck

(* When no notification is underway the listener of a client has exactly the  *)
(* files the service knows, apart from those it already knew when the client  *)
(* was connected and has not removed since, also when files come back and     *)
(* list was called in between.                                                *)
ListenerMirrors == connected /\ notes = <<>> => shown = Names(knownEntries) \ unheard

=============================================================================
