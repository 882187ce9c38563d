------------------------------- MODULE Front -------------------------------
(***************************************************************************)
(* tx3-lift-cardano lib.rs: the library's own way from a transaction to    *)
(* its lifted form.  It asks no anchors and ranks nothing: the first pair  *)
(* of a template and a profile that matches is lifted.                     *)
(*                                                                         *)
(* A source (see Process) is a TII specialized under one of its profiles.  *)
(***************************************************************************)
EXTENDS Fingerprint, Matching, Lifting

Nothing == [kind |-> "none"]
Failure == [kind |-> "error"]

(* try_lift of the j-th transaction of a source. *)
TryLift(source, j, p) ==
    LET t == source.txs[j].template
        parties == source.profile.parties
        maps == MatchTx(t, p)
    IN  IF ~FingerprintMatches(Extract(t), Summary(p)) \/ maps = None THEN Nothing
        ELSE IF ~Liftable(p, maps) THEN Failure
        ELSE [kind |-> "lifted", tx |-> source.txs[j].name,
              lifted |-> Lift(p, parties, maps)]

(* Variant: the search goes on and the last match is returned. *)
LastResult(results) ==
    LET found == {n \in DOMAIN results : results[n] # Nothing}
    IN  IF found = {} THEN Nothing ELSE results[Max(found)]

(* The search ends at the first match, and at the first error. *)
FirstResult(results) ==
    LET found == {n \in DOMAIN results : results[n] # Nothing}
    IN  IF found = {} THEN Nothing ELSE results[Min(found)]

(* The orders in which a map may give its keys, the TII's being maps of the *)
(* SDK that promise none.                                                   *)
Orders(keys) == {order \in [keys -> keys] : \A key \in keys : \E n \in keys : order[n] = key}

RouteAndLiftWithProfile(source, order, p) ==
    FirstResult([n \in DOMAIN order |-> TryLift(source, order[n], p)])

(* Every profile of the first transaction, then every profile of the next.  *)
RouteAndLift(specialized, txs, profiles, p) ==
    FirstResult([n \in DOMAIN txs |->
        FirstResult([m \in DOMAIN profiles |-> TryLift(specialized[profiles[m]], txs[n], p)])])
=============================================================================
