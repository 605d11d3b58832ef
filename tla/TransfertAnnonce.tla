-------------------------- MODULE TransfertAnnonce --------------------------
(***************************************************************************)
(* What an upload session promises, whatever the requests, the crashes and *)
(* their order: it opens once; it accumulates files, never replacing one;  *)
(* it is ready only when complete, and open again if files are withdrawn;  *)
(* a lot freezes it for ever; a cancellation ends it for ever.             *)
(***************************************************************************)
EXTENDS Integers

CONSTANTS Transferts,      \* possible states of the set of received files
          Entier(_),       \* all that was announced
          Rien             \* no file

VARIABLES phase, recus, lot

varsTransfert == <<phase, recus, lot>>

SansRemplacer(r, s) == \A f \in DOMAIN r \cap DOMAIN s : s[f] = r[f]

InitTransfert == phase = "attendu" /\ recus = Rien /\ lot = 0

Ouvrir == /\ phase = "attendu" /\ phase' = "en_cours"
          /\ UNCHANGED <<recus, lot>>
(* Files arrive, or are withdrawn by the disk or by a cancellation cut     *)
(* short: the session is then open, and no file is replaced.               *)
Changer == /\ phase \in {"en_cours", "pret"} /\ phase' = "en_cours"
           /\ recus' \in Transferts
           /\ SansRemplacer(recus, recus')
           /\ UNCHANGED lot
(* Files found on disk may complete it.                                    *)
Finir == /\ phase = "en_cours" /\ phase' = "pret"
         /\ recus' \in Transferts
         /\ SansRemplacer(recus, recus') /\ Entier(recus')
         /\ UNCHANGED lot
Associer == /\ phase = "pret" /\ phase' = "associe"
            /\ lot' \in Nat \ {0}
            /\ UNCHANGED recus
Annuler == /\ phase \in {"en_cours", "pret"} /\ phase' = "annule"
           /\ recus' = Rien
           /\ UNCHANGED lot

NextTransfert == Ouvrir \/ Changer \/ Finir \/ Associer \/ Annuler
SpecTransfert == InitTransfert /\ [][NextTransfert]_varsTransfert
=============================================================================
