------------------------------- MODULE Catalog -------------------------------
(***************************************************************************)
(* What the image service promises for one repository, without sessions,   *)
(* chunks, caches, files or transactions: a catalog of images.  A client   *)
(* offers a content for a tag; an offered content may become the image of  *)
(* a tag that has none; only a forced offer may replace an image; images   *)
(* may be withdrawn.                                                       *)
(***************************************************************************)
CONSTANTS Tags, Content, NoImage

VARIABLES catalog, offered

Offer == [digest : Content, force : BOOLEAN]

Init ==
  /\ catalog = [t \in Tags |-> NoImage]
  /\ offered = [t \in Tags |-> {}]

\* Clients make offers for t.
Announce(t) ==
  /\ offered[t] \subseteq offered'[t] /\ offered'[t] \subseteq Offer
  /\ offered' = [offered EXCEPT ![t] = offered'[t]]
  /\ UNCHANGED catalog

\* The image of t is now what o offers.
Publish(t, o) ==
  /\ o \in offered[t]
  /\ catalog[t] = NoImage \/ o.force
  /\ catalog' = [catalog EXCEPT ![t] = o.digest]
  /\ UNCHANGED offered

Withdraw(S) ==
  /\ catalog' = [t \in Tags |-> IF t \in S THEN NoImage ELSE catalog[t]]
  /\ UNCHANGED offered

Next ==
  \/ \E t \in Tags : \/ Announce(t)
                     \/ \E o \in offered[t] : Publish(t, o)
  \/ \E S \in SUBSET Tags : Withdraw(S)

Spec == Init /\ [][Next]_<<catalog, offered>>
=============================================================================
