------------------------------ MODULE Protocol ------------------------------
(***************************************************************************)
(* What crosses the wire and how an announcement is judged against the     *)
(* copy a node already has (src/src/protocol.cpp, src/src/source.cpp).     *)
(***************************************************************************)
EXTENDS Files

CONSTANT Nodes      \* the daemons, one synced directory each

\* What a file holds: its info hash.  Two contents compare by their hashes.
Content == Nat

File   == [content : Content, time : Time]
Absent == [content |-> None, time |-> None]

\* protocol::applied_t, with NotApplied where the map has no entry.  The
\* cache of announcements has an entry exactly where this one has, with the
\* torrent of the same content.
Applied    == [origin : Time, content : Content]
NotApplied == [origin |-> None, content |-> None]

\* A torrent of the session: the content it is for, and whether libtorrent
\* is done with it and reported so.
Torrent   == [content : Content, complete : BOOLEAN]
NoTorrent == [content |-> None, complete |-> FALSE]

CreateMessage == [verb : {"create"}, path : Paths, content : Content, origin : Time]
RemoveMessage == [verb : {"remove"}, path : Paths, deleted : Time]
StateMessage  == [verb : {"state"}, hashes : Hash, sender : Nodes]
DigestMessage == [verb : {"digest"}, held : TimeMap, deleted : TimeMap]
Message == CreateMessage \cup RemoveMessage \cup StateMessage \cup DigestMessage

create(path, content, origin) ==
    [verb |-> "create", path |-> path, content |-> content, origin |-> origin]
remove(path, deleted) ==
    [verb |-> "remove", path |-> path, deleted |-> deleted]
state(hashes, sender) ==
    [verb |-> "state", hashes |-> hashes, sender |-> sender]
digest(held, deleted) ==
    [verb |-> "digest", held |-> held, deleted |-> deleted]

\* Whether an announced file beats the copy on disk: the newer one wins, and
\* a tie goes to the lower info hash, unless this node does not know which
\* announcement its copy came from.
wins(known, here, origin, content) ==
    \/ here = Absent
    \/ origin > here.time
    \/ /\ origin = here.time
       /\ \/ known.origin # here.time
          \/ ~ (known.content < content)

=============================================================================
