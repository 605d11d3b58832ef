------------------------------- MODULE Comptes -------------------------------
(***************************************************************************)
(* One account, its role, its sessions and those who use it                *)
(* (comptes/comptes.py, comptes/routes.py, comptes/cli.py,                 *)
(* securite_requetes.py, sessions_redis.py).                               *)
(*                                                                         *)
(* PostgreSQL has the account and the rows of the sessions, Redis a mirror *)
(* without which no session is accepted; they are written one after the    *)
(* other and Redis may be out of reach at any time.  A request reads each  *)
(* of them in a step of its own.  A password that was right when it was    *)
(* typed no longer is after it changed.  The browser keeps the role of its *)
(* login in its cookie and sends it with the session.                      *)
(***************************************************************************)
EXTENDS Naturals, FiniteSets

CONSTANTS
  Clients,        \* browsers and scripts
  Sessions,       \* identifiers of sessions
  MaxEchecs,      \* MAX_ECHECS
  Neant

VARIABLES
  compte,      \* the row of the account
  echecs,      \* failures on record, within the window, since the last success
  session_ui,  \* the row of each session
  redis,       \* the key of each session: absent, live, or a remainder
  membres,     \* the set of the sessions of the account in Redis
  redisJoint,  \* Redis answers
  rendues,     \* sessions whose token a client got
  clients,     \* what each client has in progress
  revocation   \* the sessions an operation still has to delete from Redis

varsComptes == <<compte, echecs, session_ui, redis, membres, redisJoint,
                 rendues, clients, revocation>>

(* Two of the roles are enough: the one a capacity asks for, and another.   *)
Roles == {"approbateur", "lecture"}

ASSUME HypNeant == Neant \notin [revoquee : BOOLEAN, role : Roles \cup {Neant}]

InitComptes ==
  /\ compte = [actif |-> TRUE, role |-> "approbateur"]
  /\ echecs = 0
  /\ session_ui = [s \in Sessions |-> Neant]
  /\ redis = [s \in Sessions |-> "absente"]
  /\ membres = {}
  /\ redisJoint = TRUE
  /\ rendues = {}
  /\ clients = [c \in Clients |-> Neant]
  /\ revocation = Neant

Ouverte(s) == session_ui[s] # Neant /\ ~session_ui[s].revoquee
EnEtape(c, e) == clients[c] # Neant /\ clients[c].etape = e

Quitter(c) == clients' = [clients EXCEPT ![c] = Neant]
Poursuivre(c, e) == clients' = [clients EXCEPT ![c].etape = e]

----------------------------------------------------------------------------
(* Opening a session.                                                       *)

(* The lock is a consequence of the failures on record, read in a           *)
(* transaction of its own before the password is looked at.                 *)
verrou_actif(c, juste) ==
  /\ clients[c] = Neant
  /\ echecs < MaxEchecs
  /\ clients' = [clients EXCEPT ![c] =
       [etape |-> "verifier", juste |-> juste, role |-> Neant, session |-> Neant,
        dejaRevoquee |-> FALSE, tenus |-> {}]]
  /\ UNCHANGED <<compte, echecs, session_ui, redis, membres, redisJoint, rendues, revocation>>

(* A refusal and a success are written to the audit log, at best: the       *)
(* failures on record are all the lock knows, a success ends their count.   *)
Juste(c) == compte.actif /\ clients[c].juste

verifier_identifiants(c, note) ==
  /\ EnEtape(c, "verifier")
  /\ IF Juste(c)
       THEN /\ clients' = [clients EXCEPT ![c].etape = "inserer", ![c].role = compte.role,
                                              ![c].juste = FALSE]
            /\ echecs' = IF note THEN 0 ELSE echecs
       ELSE /\ Quitter(c)
            /\ echecs' = IF note THEN echecs + 1 ELSE echecs
  /\ UNCHANGED <<compte, session_ui, redis, membres, redisJoint, rendues, revocation>>

(* The row commits, then the mirror is published: without it the row is     *)
(* revoked and the token is not given.                                      *)
ouvrir_session(c, s) ==
  /\ EnEtape(c, "inserer")
  /\ session_ui[s] = Neant
  /\ session_ui' = [session_ui EXCEPT ![s] =
       [revoquee |-> FALSE, role |-> clients[c].role]]
  /\ clients' = [clients EXCEPT ![c].etape = "publier", ![c].session = s]
  /\ UNCHANGED <<compte, echecs, redis, membres, redisJoint, rendues, revocation>>

enregistrer(c) ==
  /\ EnEtape(c, "publier")
  /\ LET s == clients[c].session IN
     IF redisJoint
       THEN /\ redis' = [redis EXCEPT ![s] = "vivante"]
            /\ membres' = membres \cup {s}
            /\ rendues' = rendues \cup {s}
            /\ UNCHANGED session_ui
       ELSE /\ session_ui' = [session_ui EXCEPT ![s].revoquee = TRUE]
            /\ UNCHANGED <<redis, membres, rendues>>
  /\ Quitter(c)
  /\ UNCHANGED <<compte, echecs, redisJoint, revocation>>

----------------------------------------------------------------------------
(* Using it.                                                                *)

(* "dejaRevoquee" remembers whether the session was revoked when the        *)
(* request arrived, "tenus" the roles the account has had since; "role" is  *)
(* the role of the header, then the one the request acts with.              *)
presenter_jeton(c, s) ==
  /\ clients[c] = Neant /\ s \in rendues
  /\ clients' = [clients EXCEPT ![c] =
       [etape |-> "lire", juste |-> FALSE, role |-> session_ui[s].role, session |-> s,
        dejaRevoquee |-> ~Ouverte(s), tenus |-> {compte.role}]]
  /\ UNCHANGED <<compte, echecs, session_ui, redis, membres, redisJoint, rendues, revocation>>

(* Revoking for inactivity is written in the base, and in Redis at best. *)
RevoquerInactive(s) ==
  /\ session_ui' = [session_ui EXCEPT ![s].revoquee = TRUE]
  /\ redis' = IF redisJoint THEN [redis EXCEPT ![s] = "absente"] ELSE redis
  /\ membres' = IF redisJoint THEN membres \ {s} ELSE membres

(* Slip: Redis alone says whether the session is open.                      *)
ValideSansBase(c, inactive) ==
  /\ EnEtape(c, "lire") /\ ~inactive
  /\ Poursuivre(c, "registre")
  /\ UNCHANGED <<compte, echecs, session_ui, redis, membres, redisJoint, rendues, revocation>>

session_valide(c, inactive) ==
  /\ EnEtape(c, "lire")
  /\ LET s == clients[c].session IN
     \/ ~Ouverte(s) /\ ~inactive /\ Quitter(c) /\ UNCHANGED <<session_ui, redis, membres>>
     \/ Ouverte(s) /\ inactive /\ Quitter(c) /\ RevoquerInactive(s)
     \/ Ouverte(s) /\ ~inactive /\ Poursuivre(c, "registre") /\ UNCHANGED <<session_ui, redis, membres>>
  /\ UNCHANGED <<compte, echecs, redisJoint, rendues, revocation>>

etat_redis(c, inactive) ==
  /\ EnEtape(c, "registre")
  /\ LET s == clients[c].session
         vivante == redisJoint /\ redis[s] = "vivante" IN
     \/ ~vivante /\ ~inactive /\ Quitter(c) /\ UNCHANGED <<session_ui, redis, membres>>
     \/ vivante /\ inactive /\ Quitter(c) /\ RevoquerInactive(s)
     \/ vivante /\ ~inactive /\ Poursuivre(c, "toucher") /\ UNCHANGED <<session_ui, redis, membres>>
  /\ UNCHANGED <<compte, echecs, redisJoint, rendues, revocation>>

(* HSET of one field: a key deleted meanwhile comes back as a remainder     *)
(* that no reader takes for a session.                                      *)
toucher(c) ==
  /\ EnEtape(c, "toucher")
  /\ LET s == clients[c].session IN
     IF redisJoint
       THEN /\ Poursuivre(c, "compte")
            /\ redis' = IF redis[s] = "absente" THEN [redis EXCEPT ![s] = "reste"] ELSE redis
       ELSE Quitter(c) /\ UNCHANGED redis
  /\ UNCHANGED <<compte, echecs, session_ui, membres, redisJoint, rendues, revocation>>

(* Slip: the role of the header is taken for the one of the account.        *)
ActeurDeLEntete(c) ==
  IF compte.actif THEN Poursuivre(c, "acceptee") ELSE Quitter(c)

(* The account is read again: a header that says another role is refused.   *)
Acteur(c) ==
  IF compte.actif /\ clients[c].role = compte.role THEN Poursuivre(c, "acceptee") ELSE Quitter(c)

resoudre_acteur_requete(c) ==
  /\ EnEtape(c, "compte")
  /\ Acteur(c)
  /\ UNCHANGED <<compte, echecs, session_ui, redis, membres, redisJoint, rendues, revocation>>

(* A request without a session: the rescue account and the service are      *)
(* known by the token of the service, a name alone is refused.  A capacity  *)
(* of a role asks for an account, so they stop here.                        *)
sans_session(c) ==
  /\ clients[c] = Neant
  /\ clients' = [clients EXCEPT ![c] =
       [etape |-> "service", juste |-> FALSE, role |-> Neant, session |-> Neant,
        dejaRevoquee |-> FALSE, tenus |-> {}]]
  /\ UNCHANGED <<compte, echecs, session_ui, redis, membres, redisJoint, rendues, revocation>>

(* The guard of a capacity: the one who has the role does it, then or       *)
(* otherwise the request ends.                                              *)
exiger_roles_requete(c) ==
  /\ clients[c] # Neant /\ clients[c].etape \in {"acceptee", "service"}
  /\ IF clients[c].etape = "acceptee" /\ clients[c].role = "approbateur"
       THEN Poursuivre(c, "capacite") ELSE Quitter(c)
  /\ UNCHANGED <<compte, echecs, session_ui, redis, membres, redisJoint, rendues, revocation>>

terminer_requete(c) ==
  /\ clients[c] # Neant /\ clients[c].etape \in {"acceptee", "capacite"}
  /\ Quitter(c)
  /\ UNCHANGED <<compte, echecs, session_ui, redis, membres, redisJoint, rendues, revocation>>

(* The process of the web server ends; the client sees an error. *)
mort_client(c) ==
  /\ clients[c] # Neant
  /\ Quitter(c)
  /\ UNCHANGED <<compte, echecs, session_ui, redis, membres, redisJoint, rendues, revocation>>

----------------------------------------------------------------------------
(* Revoking: in the base, in one transaction with what caused it; then in   *)
(* Redis, at best.                                                          *)

RevoquerEnBase(vises) ==
  session_ui' = [s \in Sessions |->
    IF s \in vises /\ Ouverte(s) THEN [session_ui[s] EXCEPT !.revoquee = TRUE] ELSE session_ui[s]]

(* The session alone: its token is asked for, whatever its state; the       *)
(* command line asks for the identifier only and has no registry.           *)
revoquer_session(s, registre) ==
  /\ revocation = Neant /\ s \in rendues
  /\ RevoquerEnBase({s})
  /\ revocation' = IF registre THEN [toutes |-> FALSE, vises |-> {s}, lus |-> TRUE] ELSE Neant
  /\ UNCHANGED <<compte, echecs, redis, membres, redisJoint, rendues, clients>>

RevoquerToutes(suite, registre) ==
  /\ revocation = Neant
  /\ compte' = suite
  /\ RevoquerEnBase(Sessions)
  /\ revocation' = IF registre THEN [toutes |-> TRUE, vises |-> {}, lus |-> FALSE] ELSE Neant
  /\ UNCHANGED <<echecs, redis, membres, redisJoint, rendues>>

(* What the account does for itself, from a session of its own.             *)
revoquer_sessions_utilisateur(c) ==
  /\ EnEtape(c, "acceptee")
  /\ RevoquerToutes(compte, TRUE)
  /\ Quitter(c)

PerimerMotsDePasse ==
  [c \in Clients |-> IF clients[c] = Neant THEN Neant ELSE [clients[c] EXCEPT !.juste = FALSE]]

changer_mot_de_passe(c) ==
  /\ EnEtape(c, "acceptee") /\ compte.actif
  /\ RevoquerToutes(compte, TRUE)
  /\ clients' = [PerimerMotsDePasse EXCEPT ![c] = Neant]

(* What an administrator does to it, from a route or from the command line. *)
reinitialiser_mot_de_passe(registre) ==
  /\ RevoquerToutes(compte, registre)
  /\ clients' = PerimerMotsDePasse

desactiver_utilisateur(registre) ==
  /\ RevoquerToutes([compte EXCEPT !.actif = FALSE], registre)
  /\ UNCHANGED clients

(* The role the account has already: nothing is revoked.                    *)
changer_role_utilisateur(role, registre) ==
  /\ compte.role # role
  /\ RevoquerToutes([compte EXCEPT !.role = role], registre)
  /\ clients' = [c \in Clients |->
       IF clients[c] = Neant \/ clients[c].tenus = {} THEN clients[c]
       ELSE [clients[c] EXCEPT !.tenus = @ \cup {role}]]

Administrer(registre) ==
  \/ reinitialiser_mot_de_passe(registre) \/ desactiver_utilisateur(registre)
  \/ \E r \in Roles : changer_role_utilisateur(r, registre)

(* comptes/cli.py: the same operations, without the registry. *)
executer ==
  \/ \E s \in Sessions : revoquer_session(s, FALSE)
  \/ Administrer(FALSE)

(* revoquer_utilisateur lists the members, then deletes the keys it listed  *)
(* and the whole set.                                                       *)
lister_membres ==
  /\ revocation # Neant /\ ~revocation.lus /\ redisJoint
  /\ revocation' = [revocation EXCEPT !.lus = TRUE, !.vises = membres]
  /\ UNCHANGED <<compte, echecs, session_ui, redis, membres, redisJoint, rendues, clients>>

supprimer_cles ==
  /\ revocation # Neant /\ revocation.lus /\ redisJoint
  /\ redis' = [s \in Sessions |-> IF s \in revocation.vises THEN "absente" ELSE redis[s]]
  /\ membres' = IF revocation.toutes THEN {} ELSE membres \ revocation.vises
  /\ revocation' = Neant
  /\ UNCHANGED <<compte, echecs, session_ui, redisJoint, rendues, clients>>

(* Redis out of reach, or the end of the process: the base is revoked. *)
abandonner_revocation ==
  /\ revocation # Neant
  /\ revocation' = Neant
  /\ UNCHANGED <<compte, echecs, session_ui, redis, membres, redisJoint, rendues, clients>>

----------------------------------------------------------------------------
(* The outside.                                                             *)

(* Failures older than the window no longer count. *)
passer_la_fenetre ==
  /\ echecs > 0
  /\ echecs' = 0
  /\ UNCHANGED <<compte, session_ui, redis, membres, redisJoint, rendues, clients, revocation>>

basculer_redis ==
  /\ redisJoint' = ~redisJoint
  /\ UNCHANGED <<compte, echecs, session_ui, redis, membres, rendues, clients, revocation>>

(* Redis restarts empty. *)
vider_redis ==
  /\ redisJoint /\ membres # {}
  /\ redis' = [s \in Sessions |-> "absente"]
  /\ membres' = {}
  /\ UNCHANGED <<compte, echecs, session_ui, redisJoint, rendues, clients, revocation>>

NextComptes ==
  \/ \E c \in Clients :
       \/ \E b \in BOOLEAN :
            verrou_actif(c, b) \/ verifier_identifiants(c, b) \/ session_valide(c, b) \/ etat_redis(c, b)
       \/ \E s \in Sessions : ouvrir_session(c, s) \/ presenter_jeton(c, s)
       \/ sans_session(c) \/ enregistrer(c) \/ toucher(c) \/ resoudre_acteur_requete(c)
       \/ exiger_roles_requete(c) \/ terminer_requete(c) \/ mort_client(c)
       \/ revoquer_sessions_utilisateur(c) \/ changer_mot_de_passe(c)
  \/ \E s \in Sessions : revoquer_session(s, TRUE)
  \/ Administrer(TRUE) \/ executer
  \/ lister_membres \/ supprimer_cles \/ abandonner_revocation
  \/ passer_la_fenetre \/ basculer_redis \/ vider_redis

----------------------------------------------------------------------------

(* A request that arrives after the session was revoked is never accepted,  *)
(* with Redis out of reach during the revocation, emptied, or left with     *)
(* what an earlier request wrote; and an accepted request never acts with a *)
(* role the account lost before it arrived, whatever its cookie says.       *)
RevocationEffective ==
  \A c \in Clients : clients[c] # Neant /\ clients[c].etape \in {"acceptee", "capacite"} =>
    /\ ~clients[c].dejaRevoquee
    /\ clients[c].role \in clients[c].tenus
=============================================================================
