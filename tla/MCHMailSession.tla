---------------------------- MODULE MCHMailSession ----------------------------
(* A small instance of HMailSession for TLC: every setting with servers that *)
(* answer by the letter, and those of SMTP with servers that do not. Nobody   *)
(* answers 251, with which VerdictsTruthful does not hold.                    *)
EXTENDS HMailSession

With(codes) == [lmtp : BOOLEAN, pooling : BOOLEAN, forceTls : BOOLEAN,
                enableTls : BOOLEAN, hasAuth : BOOLEAN, codes : {codes}]

MCOptions == With(Orderly) \cup
             {o \in With(ReplyKinds \ {"251"}) : ~o.lmtp}
===============================================================================
