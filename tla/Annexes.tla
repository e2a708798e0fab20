------------------------------- MODULE Annexes -------------------------------
(***************************************************************************)
(* The registers kept beside the transactions. They share no state, only   *)
(* the kinds of calls and the restarts: a behaviour exercises one of them, *)
(* chosen at the start, and the others stay as they were.                  *)
(***************************************************************************)
EXTENDS Replenishment, Cashier, Stock, FiscalYear, CircuitBreaker, Campaigns, Livraisons,
        FileHorsLigne

VARIABLE actif  \* the register this behaviour exercises

annexesVars == <<arrets, actif, rechVars, caisseVars, stockVars, exVars, breakerVars, campVars,
                 livVars, fileVars>>

AnnexesTypeOK ==
  /\ arrets \in 0..MaxArrets
  /\ RechTypeOK /\ CaisseTypeOK /\ StockTypeOK /\ ExTypeOK /\ BreakerTypeOK /\ CampTypeOK
  /\ LivTypeOK /\ FileTypeOK

AnnexesInit ==
  /\ arrets = 0
  /\ actif \in {"recharge", "caisse", "stock", "exercice", "disjoncteur", "campagne",
                "livraison", "mobile"}
  /\ RechInit /\ CaisseInit /\ StockInit /\ ExInit /\ BreakerInit /\ LivInit
  /\ CampInit /\ (actif = "campagne" \/ campagne.statut = "BROUILLON")
  /\ FileInit /\ (actif = "mobile" \/ connecte)

ParRecharge ==
  /\ actif = "recharge" /\ RechNext
  /\ UNCHANGED <<actif, caisseVars, stockVars, exVars, breakerVars, campVars, livVars, fileVars>>

ParCaisse ==
  /\ actif = "caisse" /\ CaisseNext
  /\ UNCHANGED <<actif, rechVars, stockVars, exVars, breakerVars, campVars, livVars, fileVars>>

ParStock ==
  /\ actif = "stock" /\ StockNext
  /\ UNCHANGED <<actif, rechVars, caisseVars, exVars, breakerVars, campVars, livVars, fileVars>>

ParExercice ==
  /\ actif = "exercice" /\ ExNext
  /\ UNCHANGED <<actif, rechVars, caisseVars, stockVars, breakerVars, campVars, livVars, fileVars>>

ParDisjoncteur ==
  /\ actif = "disjoncteur" /\ BreakerNext
  /\ UNCHANGED <<actif, rechVars, caisseVars, stockVars, exVars, campVars, livVars, fileVars>>

ParCampagne ==
  /\ actif = "campagne" /\ CampNext
  /\ UNCHANGED <<actif, rechVars, caisseVars, stockVars, exVars, breakerVars, livVars, fileVars>>

ParLivraison ==
  /\ actif = "livraison" /\ LivNext
  /\ UNCHANGED <<actif, rechVars, caisseVars, stockVars, exVars, breakerVars, campVars, fileVars>>

ParMobile ==
  /\ actif = "mobile" /\ FileNext
  /\ UNCHANGED <<actif, rechVars, caisseVars, stockVars, exVars, breakerVars, campVars, livVars>>

AnnexesNext ==
  \/ ParRecharge \/ ParCaisse \/ ParStock \/ ParExercice \/ ParDisjoncteur
  \/ ParCampagne \/ ParLivraison \/ ParMobile

(* The fairness of FileHorsLigne, in the behaviours that exercise it.      *)
AnnexesEquite ==
  /\ \A e \in Saisies \cup Flux : WF_fileVars(actif = "mobile" /\ FluxEtape(e))
  /\ WF_fileVars(actif = "mobile" /\ (EcouterSansSuite \/ \E f \in Flux : EcouterEtEnvoyer(f)))
  /\ WF_fileVars(actif = "mobile" /\ Reabonner)
  /\ WF_fileVars(actif = "mobile" /\ Reconnecter)

AnnexesSpec == AnnexesInit /\ [][AnnexesNext]_annexesVars /\ AnnexesEquite
=============================================================================
