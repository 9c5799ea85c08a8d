------------------------------- MODULE Watchers -------------------------------
(***************************************************************************)
(* The watchers of the resource sources (resource/watcher.rs).  Every      *)
(* source has one; those of the sources in a nested source are children of *)
(* its watcher.  A watcher knows which ids it watches, at which index its  *)
(* source is, and where to report changes.                                 *)
(*                                                                         *)
(* The operations are operators on a state s = [tree, sent]: the watchers, *)
(* and the reports that wait in the channel.  Each runs under the locks of *)
(* the watchers it meets.  "has" is the ResourceHashProvider: the hash a   *)
(* source itself has for an id, or None.  (A bound: the sources in a nested *)
(* source contain no others, so that a watcher has children or is a child.) *)
(***************************************************************************)
EXTENDS Integers, Sequences, FiniteSets

CONSTANTS
  Sources,  \* sources, and their watchers
  Ids,      \* resource ids
  Hashes,   \* hashes of resource data
  MaxIndex, \* usize::MAX: no list of sources is that long
  None      \* no hash, no index

-----------------------------------------------------------------------------
(* The index of a source (SourceIndex in resource/source/mod.rs).  Sources *)
(* nest: an index says at which place of the manager's list a source is,   *)
(* then at which place of that source's list, and so on.  The innermost    *)
(* sub-index is missing, or stands before or after all others.             *)

Ends == {"min", "none", "max"}

Index(path) == [path |-> path, end |-> "none"]

\* SourceIndex::max(), the index of data from no source: see SourceMetadata.
MaxSource == [path |-> <<MaxIndex>>, end |-> "max"]

\* wrap and seal: data that a source found by a path is at that path in the
\* source that has it at a place.
Wrap(path, place) == <<place>> \o path

\* idx and sub_idx: the outermost place, and the rest, if there is any.
Idx(x) == x.path[1]

HasSub(x) == Len(x.path) > 1

Sub(x) == [x EXCEPT !.path = Tail(@)]

\* with_sub_idx(Some(i)), by which a watcher tells a child its index: the
\* sub-index is replaced, whatever it was.
WithSub(x, i) == Index(<<Idx(x), i>>)

\* What is compared at place i: the end of a path is below or above the
\* places that a longer path goes on with.
Rank(x, i) ==
  IF i <= Len(x.path) THEN x.path[i]
  ELSE CASE x.end = "min" -> -2 [] x.end = "none" -> -1 [] x.end = "max" -> MaxIndex + 1

\* cmp: outermost place first.
Below(x, y) ==
  \E i \in 1 .. Len(x.path) + 1 :
    /\ \A j \in 1 .. i - 1 : j <= Len(y.path) + 1 /\ Rank(x, j) = Rank(y, j)
    /\ i <= Len(y.path) + 1
    /\ Rank(x, i) < Rank(y, i)

\* Mutant: an index is not at most itself.
StrictlyBelow(x, y) == Below(x, y)

AtMost(x, y) == x = y \/ Below(x, y)

-----------------------------------------------------------------------------
(* The watchers.                                                           *)

\* full and partial: an id watched for all children, or for the first ones.
NewWatcher == [children |-> <<>>, full |-> {}, partial |-> {}, config |-> None]

AllWatches(w) == w.full \cup w.partial

IsWatched(s, w, id) == id \in AllWatches(s.tree[w])

Added(h)    == [kind |-> "added", hash |-> h]
Modified(h) == [kind |-> "modified", hash |-> h]
Removed     == [kind |-> "removed"]
Moved(idx)  == [kind |-> "moved", from |-> idx]

\* notify_update: updates is a function on the ids concerned.
NotifyUpdate(s, w, updates) ==
  IF DOMAIN updates = {} \/ s.tree[w].config = None THEN s
  ELSE [s EXCEPT !.sent = Append(@, [src |-> s.tree[w].config, updates |-> updates])]

\* provider.hashes: those of ids that the source itself has.
Provided(has, w, ids) == {id \in ids : has[w][id] # None}

\* A watcher that had an index reports a move, another one an addition.
ConfigureOne(s, has, w, idx) ==
  LET old     == s.tree[w].config
      ids     == Provided(has, w, AllWatches(s.tree[w]))
      updates == [id \in ids |-> IF old # None THEN Moved(old) ELSE Added(has[w][id])]
  IN NotifyUpdate([s EXCEPT !.tree[w].config = idx], w, updates)

\* configure_children: a child is told its place, counted from 0.
ConfigureChildren(s, has, w, from) ==
  LET children == s.tree[w].children
      done[i \in from .. Len(children)] ==
        IF i = from THEN s
        ELSE ConfigureOne(done[i - 1], has, children[i], WithSub(s.tree[w].config, i - 1))
  IN done[Len(children)]

Configure(s, has, w, idx) == ConfigureChildren(ConfigureOne(s, has, w, idx), has, w, 0)

Reconfigure(s, has, w, from) ==
  IF s.tree[w].config = None THEN s ELSE ConfigureChildren(s, has, w, from)

\* The watches of a child are given up, and what its source had is reported as
\* removed.
Unconfigure(s, has, w) ==
  LET ids      == Provided(has, w, AllWatches(s.tree[w]))
      drained  == [s EXCEPT !.tree[w].full = {}, !.tree[w].partial = {}]
      reported == NotifyUpdate(drained, w, [id \in ids |-> Removed])
  IN [reported EXCEPT !.tree[w].config = None]

\* A watcher that watches an id, for all children or for the first ones, and
\* one that does not.
Watching(w, id, sub) ==
  IF sub = None THEN [w EXCEPT !.full = @ \cup {id}] ELSE [w EXCEPT !.partial = @ \cup {id}]

Unwatching(w, id) == [w EXCEPT !.full = @ \ {id}, !.partial = @ \ {id}]

ChildrenAt(s, w, places) ==
  {s.tree[w].children[i] : i \in {i \in DOMAIN s.tree[w].children : i - 1 \in places}}

Unwatch(s, w, id) ==
  LET out == {w} \cup ChildrenAt(s, w, Nat) IN
  [s EXCEPT !.tree = [x \in Sources |-> IF x \in out THEN Unwatching(@[x], id) ELSE @[x]]]

\* watch: with a sub-index, only the children up to it need to watch.
Watch(s, w, id, sub) ==
  LET upTo  == IF sub = None THEN MaxSource ELSE sub
      first == ChildrenAt(s, w, 0 .. Idx(upTo))
      rest  == ChildrenAt(s, w, Nat) \ first
  IN [s EXCEPT !.tree = [x \in Sources |->
        CASE x = w     -> Watching(@[x], id, sub)
          [] x \in first -> Watching(@[x], id, IF HasSub(upTo) THEN Sub(upTo) ELSE None)
          [] x \in rest  -> Unwatching(@[x], id)
          [] OTHER       -> @[x]]]

AddWatches(s, w, ids) == [s EXCEPT !.tree[w].full = @ \cup ids]

PushChild(s, has, w, child) ==
  LET knowing == AddWatches(s, child, s.tree[w].full)
      pushed  == [knowing EXCEPT !.tree[w].children = Append(@, child)]
  IN Reconfigure(pushed, has, w, Len(s.tree[w].children))

InsertedAt(seq, place, x) == SubSeq(seq, 1, place) \o <<x>> \o SubSeq(seq, place + 1, Len(seq))

\* insert_child: the new child watches what the one at its place does.
InsertChild(s, has, w, place, child) ==
  LET children == s.tree[w].children
      knowing  == AddWatches(s, child, AllWatches(s.tree[children[place + 1]]))
      inserted == [knowing EXCEPT !.tree[w].children = InsertedAt(@, place, child)]
  IN IF place < Len(children) THEN Reconfigure(inserted, has, w, place)
     ELSE PushChild(s, has, w, child)

RemovedAt(seq, place) == SubSeq(seq, 1, place) \o SubSeq(seq, place + 2, Len(seq))

RemoveChild(s, has, w, place) ==
  LET child   == s.tree[w].children[place + 1]
      without == [s EXCEPT !.tree[w].children = RemovedAt(@, place)]
  IN Reconfigure(Unconfigure(without, has, child), has, w, place)
=============================================================================
