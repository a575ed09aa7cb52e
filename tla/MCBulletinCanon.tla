---------------------------- MODULE MCBulletinCanon ----------------------------
(* Small instances of BulletinCanon for TLC. *)
EXTENDS BulletinCanon, TLC

CONSTANTS h1, h2,    \* request threads
          codeJ      \* another reason code

OneHandler == {h1}
TwoHandlers == {h1, h2}
OneOther == {codeJ}

HandlerSymmetry == Permutations(Handlers)
===============================================================================
