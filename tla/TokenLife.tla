----------------------------- MODULE TokenLife -----------------------------
(***************************************************************************)
(* What the tokens of biz/middleware/jwt promise: a token is issued once,  *)
(* lives, dies, and stays dead, whatever order the commands that shorten    *)
(* its life and the expiry of its key come in.                             *)
(***************************************************************************)
CONSTANT Ids   \* token identifiers: the claim jti
VARIABLE life  \* life[t]: what has become of token t

Lives == {"unborn", "live", "dead"}

LifeInit == life = [t \in Ids |-> "unborn"]

Issue == \E t \in Ids : /\ life[t] = "unborn"
                        /\ life' = [life EXCEPT ![t] = "live"]

\* Tokens that were live, and no others, die; several may die of old age at once.
Die == \E T \in SUBSET {t \in Ids : life[t] = "live"} :
         life' = [t \in Ids |-> IF t \in T THEN "dead" ELSE life[t]]

LifeSpec == LifeInit /\ [][Issue \/ Die]_life
=============================================================================
