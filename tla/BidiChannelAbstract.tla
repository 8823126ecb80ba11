------------------------- MODULE BidiChannelAbstract -------------------------
(***************************************************************************)
(* What a bidirectional channel promises, without cryptography.  Opening   *)
(* a channel creates two directions, author-to-peer and peer-to-author.    *)
(* The author obtains the sending end of the first and the receiving end   *)
(* of the second.  A peer whose view of the channel is the mirror of the   *)
(* author's obtains the opposite ends.  Anyone else who joins, with a      *)
(* view that differs in any field, obtains keys that belong to no          *)
(* direction (Dead).                                                       *)
(***************************************************************************)
EXTENDS Naturals, Bags

CONSTANTS Users, Ids, Parents, Labels, MaxRoots, MaxJoins

Views == [parent : Parents, our_sk : Users, our_id : Ids,
          their_pk : Users, their_id : Ids, label : Labels]

VARIABLES
    roots,      \* channels opened so far
    chans,      \* the channels: [ch (the author's view), root]
    pending,    \* channels whose author has not taken its ends yet
    held        \* bag of [who, role, ch, chan, seal, open]

Endpoint(r, dir) == [chan |-> r, dir |-> dir]
Dead == [chan |-> 0, dir |-> "none"]

Mirror(view, ch) ==
    /\ view.parent = ch.parent /\ view.label = ch.label
    /\ view.our_id = ch.their_id /\ view.their_id = ch.our_id
    /\ view.our_sk = ch.their_pk /\ view.their_pk = ch.our_sk

Init ==
    /\ roots = 0 /\ chans = {} /\ pending = {} /\ held = EmptyBag

Open(u) ==
    \E ch \in Views :
        /\ ch.our_sk = u /\ ch.our_id # ch.their_id
        /\ roots < MaxRoots
        /\ roots' = roots + 1
        /\ chans' = chans \cup {[ch |-> ch, root |-> roots']}
        /\ pending' = pending \cup {[ch |-> ch, root |-> roots']}
        /\ UNCHANGED held

AuthorJoin(c) ==
    /\ c \in pending
    /\ BagCardinality(held) < MaxJoins
    /\ pending' = pending \ {c}
    /\ held' = held (+) SetToBag({[who |-> c.ch.our_sk, role |-> "author", ch |-> c.ch,
                                   chan |-> c.root, seal |-> Endpoint(c.root, "a2p"),
                                   open |-> Endpoint(c.root, "p2a")]})
    /\ UNCHANGED <<roots, chans>>

PeerJoin(v, c, view) ==
    LET ok == Mirror(view, c.ch)
    IN  /\ c \in chans
        /\ view.our_sk = v /\ view.our_id # view.their_id
        /\ BagCardinality(held) < MaxJoins
        /\ held' = held (+) SetToBag({[who |-> v, role |-> "peer", ch |-> view,
                                       chan |-> c.root,
                                       seal |-> IF ok THEN Endpoint(c.root, "p2a") ELSE Dead,
                                       open |-> IF ok THEN Endpoint(c.root, "a2p") ELSE Dead]})
        /\ UNCHANGED <<roots, chans, pending>>

Next ==
    \/ \E u \in Users : Open(u)
    \/ \E c \in pending : AuthorJoin(c)
    \/ \E v \in Users, c \in chans, view \in Views : PeerJoin(v, c, view)

Spec == Init /\ [][Next]_<<roots, chans, pending, held>>
====
