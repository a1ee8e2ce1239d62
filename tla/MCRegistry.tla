----------------------------- MODULE MCRegistry -----------------------------
(* Two small worlds for the registry.                                      *)
(*                                                                         *)
(* Accounts: Ann and ann are two spellings of one identity (ann is         *)
(* preferred) whose pseudonym looks like the real value sam; bob and eve     *)
(* collide up to case; the generator returns sam itself for sam.           *)
(* SIDs: two accounts below one domain, pseudonyms under two mapped        *)
(* domains with the terminal kept or replaced, one of them a historical    *)
(* name and one the source itself.                                         *)
EXTENDS Registry, TLC

CONSTANTS ann, Ann, bob, eve, sam,          \* account spellings
          hen, Hen, samu,              \* account pseudonyms
          iAnn, iBob, iEve, iSam, iHen,
          user, User, group,                \* SID spellings
          p500, p900, q500, self,
          iUser, iGroup, i1, i2, i3

AccountSources == {ann, Ann, bob, eve, sam}
AccountPseudonyms == {hen, Hen, samu}
AccountIdentities == {iAnn, iBob, iEve, iSam, iHen}
AccountNorm ==
    (ann :> iAnn) @@ (Ann :> iAnn) @@ (bob :> iBob) @@ (eve :> iEve) @@ (sam :> iSam) @@
    (hen :> iHen) @@ (Hen :> iHen) @@ (samu :> iSam)
AccountRank == (ann :> 1) @@ (Ann :> 2) @@ (bob :> 3) @@ (eve :> 4) @@ (sam :> 5)
AccountCandidate ==
    (ann :> samu) @@ (Ann :> samu) @@ (bob :> hen) @@ (eve :> Hen) @@ (sam :> samu)
AccountArcs == [v \in AccountSources \cup AccountPseudonyms |-> <<>>]
AccountHistorical == {}

SidSources == {user, User, group}
SidPseudonyms == {p500, p900, q500, self}
SidIdentities == {iUser, iGroup, i1, i2, i3}
SidNorm ==
    (user :> iUser) @@ (User :> iUser) @@ (group :> iGroup) @@
    (p500 :> i1) @@ (p900 :> i2) @@ (q500 :> i3) @@ (self :> iUser)
SidRank == (user :> 1) @@ (User :> 2) @@ (group :> 3)
SidCandidate == (user :> q500) @@ (User :> q500) @@ (group :> p900)
SidArcs ==
    (user :> <<1, 500>>) @@ (User :> <<1, 500>>) @@ (group :> <<1, 512>>) @@
    (p500 :> <<7, 500>>) @@ (p900 :> <<7, 900>>) @@ (q500 :> <<8, 500>>) @@
    (self :> <<1, 500>>)
SidHistorical == {i1}
=============================================================================
