----------------------------- MODULE BidiChannel -----------------------------
(***************************************************************************)
(* Key agreement for a bidirectional APS channel (crypto/src/aps/bidi.rs). *)
(*                                                                         *)
(* Cryptography is symbolic.  A hash is the tuple of its inputs.  An HPKE  *)
(* context is the record of its shared secret and info, and a key is the   *)
(* pair of a context and the way it was obtained from it: "raw" for        *)
(* into_raw_parts, or the label of export.  DHKEM in Auth mode gives the   *)
(* sender the secret [eph, snd, rcv] of the ephemeral key derived from the *)
(* root key, its own key and the receiver's key.  The receiver computes    *)
(* the secret from the encapsulation, the sender's public key it was       *)
(* given and its own secret key, and both agree exactly when those keys    *)
(* are the sender's and its own.                                           *)
(*                                                                         *)
(* A BidiChannel value is a record of the caller's view: parent, our_sk    *)
(* and their_pk (the owners of the keys), our_id, their_id and label.      *)
(* net holds every encapsulation ever sent; it is never emptied, so an     *)
(* encapsulation can be delivered to anyone, any number of times.          *)
(***************************************************************************)
EXTENDS Naturals, Bags, FiniteSets

CONSTANTS
    Users,      \* owners of encryption key pairs
    Ids,        \* UserIds
    Parents,    \* parent command ids
    Labels,     \* channel labels (u32; only equality matters)
    MaxRoots,   \* bound on RootChannelKey::random
    MaxJoins    \* bound on the key derivations of a behaviour

Views == [parent : Parents, our_sk : Users, our_id : Ids,
          their_pk : Users, their_id : Ids, label : Labels]

VARIABLES
    roots,      \* the root channel keys drawn so far (1 .. roots)
    net,        \* the BidiPeerEncap values sent
    secrets,    \* the BidiAuthorSecret values not yet consumed: [ch, root]
    opened,     \* the channels BidiSecrets::new succeeded for (history)
    held        \* bag of the BidiKeys derived: [who, role, ch, enc, seal, open]

vars == <<roots, net, secrets, opened, held>>

-----------------------------------------------------------------------------
(* Hashing and HPKE.                                                       *)

\* Mutant: the label is left out of the hash.
AuthorInfoNoLabel(ch) == <<"ApsChannelKeys", ch.parent, ch.our_id, ch.their_id>>

\* author_info: H("ApsChannelKeys", suite, engine, parent, our, their, label)
AuthorInfo(ch) == <<"ApsChannelKeys", ch.parent, ch.our_id, ch.their_id, ch.label>>

\* Mutant: the peer hashes the ids in the author's order.
PeerInfoUnswapped(ch) == <<"ApsChannelKeys", ch.parent, ch.our_id, ch.their_id, ch.label>>

\* peer_info: the same with our_id and their_id reversed.
PeerInfo(ch) == <<"ApsChannelKeys", ch.parent, ch.their_id, ch.our_id, ch.label>>

\* The encapsulation produced from a root key: the ephemeral public key
\* DeriveKeyPair(ikm) yields.
EncOf(root) == root

\* setup_send_deterministically(Auth(sk_s), pk_r, info, root): the context.
SendCtx(snd, rcv, info, root) ==
    [ss |-> [eph |-> EncOf(root), snd |-> snd, rcv |-> rcv], info |-> info]

\* setup_recv(Auth(pk_s), enc, sk_r, info): the context.
RecvCtx(snd, enc, rcv, info) ==
    [ss |-> [eph |-> enc, snd |-> snd, rcv |-> rcv], info |-> info]

\* ctx.into_raw_parts() and ctx.export(label) of key and base_nonce.
Raw(ctx)    == [ctx |-> ctx, via |-> "raw"]
Export(ctx) == [ctx |-> ctx, via |-> "bidi response"]

\* The info values: hashes of the channel fields.
Infos == {<<"ApsChannelKeys", p, a, b, l>> : p \in Parents, a, b \in Ids, l \in Labels}
-----------------------------------------------------------------------------

TypeOK ==
    /\ roots \in 0 .. MaxRoots
    /\ net \subseteq 1 .. roots
    /\ secrets \subseteq [ch : Views, root : 1 .. roots]
    /\ opened \subseteq [ch : Views, root : 1 .. roots]
    /\ IsABag(held)
    /\ \A h \in BagToSet(held) :
          /\ h.who \in Users /\ h.role \in {"author", "peer"}
          /\ h.ch \in Views /\ h.enc \in 1 .. roots
          /\ {h.seal.ctx.info, h.open.ctx.info} \subseteq Infos

Init ==
    /\ roots = 0
    /\ net = {}
    /\ secrets = {}
    /\ opened = {}
    /\ held = EmptyBag

\* BidiSecrets::new, called by the author u: a fresh root key, the peer's
\* encapsulation (sent) and the author's secret (kept).
NewSecrets(u) ==
    \E ch \in Views :
        /\ ch.our_sk = u
        /\ ch.our_id # ch.their_id                  \* Err(same_user_id)
        /\ roots < MaxRoots
        /\ roots' = roots + 1
        /\ net' = net \cup {EncOf(roots')}
        /\ secrets' = secrets \cup {[ch |-> ch, root |-> roots']}
        /\ opened' = opened \cup {[ch |-> ch, root |-> roots']}
        /\ UNCHANGED held

Derived == BagCardinality(held)

\* Mutant: the author's open key is the raw key as well.
FromAuthorSecretNoExport(s) ==
    LET ctx == SendCtx(s.ch.our_sk, s.ch.their_pk, AuthorInfo(s.ch), s.root)
    IN  /\ s \in secrets
        /\ s.ch.our_id # s.ch.their_id
        /\ Derived < MaxJoins
        /\ secrets' = secrets \ {s}
        /\ held' = held (+) SetToBag({[who |-> s.ch.our_sk, role |-> "author",
                                       ch |-> s.ch, enc |-> EncOf(s.root),
                                       seal |-> Raw(ctx), open |-> Raw(ctx)]})
        /\ UNCHANGED <<roots, net, opened>>

\* BidiKeys::from_author_secret(ch, secret): the secret is moved in, so it
\* is consumed.  seal is the context's raw key, open its export.
FromAuthorSecret(s) ==
    LET ctx == SendCtx(s.ch.our_sk, s.ch.their_pk, AuthorInfo(s.ch), s.root)
    IN  /\ s \in secrets
        /\ s.ch.our_id # s.ch.their_id               \* Err(same_user_id)
        /\ Derived < MaxJoins
        /\ secrets' = secrets \ {s}
        /\ held' = held (+) SetToBag({[who |-> s.ch.our_sk, role |-> "author",
                                       ch |-> s.ch, enc |-> EncOf(s.root),
                                       seal |-> Raw(ctx), open |-> Export(ctx)]})
        /\ UNCHANGED <<roots, net, opened>>

\* Mutant: the peer takes the raw key to seal and the export to open.
FromPeerEncapSwapped(v, enc, ch) ==
    LET ctx == RecvCtx(ch.their_pk, enc, ch.our_sk, PeerInfo(ch))
    IN  /\ enc \in net
        /\ ch.our_sk = v
        /\ ch.our_id # ch.their_id
        /\ Derived < MaxJoins
        /\ held' = held (+) SetToBag({[who |-> v, role |-> "peer", ch |-> ch,
                                       enc |-> enc, seal |-> Raw(ctx),
                                       open |-> Export(ctx)]})
        /\ UNCHANGED <<roots, net, secrets, opened>>

\* BidiKeys::from_peer_encap(ch, enc), called by v with an encapsulation
\* from the network: seal is the export, open the raw key.
FromPeerEncap(v, enc, ch) ==
    LET ctx == RecvCtx(ch.their_pk, enc, ch.our_sk, PeerInfo(ch))
    IN  /\ enc \in net
        /\ ch.our_sk = v
        /\ ch.our_id # ch.their_id                   \* Err(same_user_id)
        /\ Derived < MaxJoins
        /\ held' = held (+) SetToBag({[who |-> v, role |-> "peer", ch |-> ch,
                                       enc |-> enc, seal |-> Export(ctx),
                                       open |-> Raw(ctx)]})
        /\ UNCHANGED <<roots, net, secrets, opened>>

Next ==
    \/ \E u \in Users : NewSecrets(u)
    \/ \E s \in secrets : FromAuthorSecret(s)
    \/ \E v \in Users, enc \in net, ch \in Views : FromPeerEncap(v, enc, ch)

Spec == Init /\ [][Next]_vars
-----------------------------------------------------------------------------

Held == BagToSet(held)

(* The refinement mapping.  A key is the author's end of a direction when  *)
(* its context is the context the author of its channel set up; every     *)
(* other key is Dead.  The raw key carries author-to-peer traffic and the  *)
(* export peer-to-author traffic.                                          *)

AuthorCtx(c) == SendCtx(c.ch.our_sk, c.ch.their_pk, AuthorInfo(c.ch), c.root)

AbsKey(k) ==
    IF \E c \in opened : k.ctx = AuthorCtx(c)
    THEN [chan |-> k.ctx.ss.eph, dir |-> IF k.via = "raw" THEN "a2p" ELSE "p2a"]
    ELSE [chan |-> 0, dir |-> "none"]

AbsRec(h) == [who |-> h.who, role |-> h.role, ch |-> h.ch, chan |-> h.enc,
              seal |-> AbsKey(h.seal), open |-> AbsKey(h.open)]

AbsHeld ==
    [a \in {AbsRec(h) : h \in DOMAIN held} |->
        held[CHOOSE h \in DOMAIN held : AbsRec(h) = a]]

Abs == INSTANCE BidiChannelAbstract WITH chans <- opened, pending <- secrets, held <- AbsHeld

\* Channel info symmetry (spec 8) at the level of keys: an author and a
\* peer holding keys from the same encapsulation can talk (the author's
\* seal key is the peer's open key and the other way round) exactly when
\* the peer's BidiChannel is the mirror of the author's.  This is about
\* author_info and peer_info, and about which side exports and which
\* side takes the raw key in from_author_secret and from_peer_encap.
ChannelKeysAgree ==
    \A a, p \in Held :
        (a.role = "author" /\ p.role = "peer" /\ a.enc = p.enc) =>
            ((a.seal = p.open /\ a.open = p.seal) = Abs!Mirror(p.ch, a.ch))

\* No key is used in both directions: a seal key is never anyone's seal
\* key on the other side, nor the holder's own open key, so a message
\* sealed on one side is never accepted as coming from that side.
NoReflection ==
    \A h1, h2 \in Held :
        /\ h1.seal # h1.open
        /\ h1.role # h2.role => h1.seal # h2.seal

\* The key agreement implements the abstract channel: every key a user
\* derives is the end of the channel direction BidiChannelAbstract gives
\* it, or belongs to no direction when its view is not the mirror of the
\* author's.
BidiRefinement == Abs!Spec
====
