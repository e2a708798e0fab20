----------------------------- MODULE FiscalYear -----------------------------
(***************************************************************************)
(* One fiscal year of AccountingService: journal entries on the result     *)
(* accounts (products on 706, charges on 627) and its closing, which reads *)
(* the year, computes its result, books the closing entry under a fixed    *)
(* reference through createJournalEntry, then closes the year: four        *)
(* separate calls, beside the entries that other requests insert.          *)
(***************************************************************************)
EXTENDS Appels

CONSTANT ComptesReport  \* TRUE: the accounts 120, 129, 706 and 627 exist

ASSUME FiscalYearAssumption == ComptesReport \in BOOLEAN

VARIABLES
  clos,     \* FiscalYear.isClosed
  soldes,   \* balance of the result accounts, all entries included
  report,   \* the closing entry: the result it carries, Rien if there is none
  exJob,    \* progress of each call
  tardives  \* calls that read the year open and wrote once it was being closed

exVars == <<clos, soldes, report, exJob, tardives>>

ExTypeOK ==
  /\ clos \in BOOLEAN
  /\ soldes \in [produits: Int, charges: Int]
  /\ report \in Int \cup {Rien}
  /\ exJob \in [Appels -> [op: {"aucune", "ecrire", "cloturer"}, montant: Int, vu: BOOLEAN,
                           pc: {"repos", "lu", "calcule", "verifie", "reporte",
                                "fini", "refuse", "perdu"}]]
  /\ tardives \subseteq Appels

ExInit ==
  /\ clos = FALSE
  /\ soldes = [produits |-> 0, charges |-> 0]
  /\ report = Rien
  /\ exJob = [c \in Appels |-> [op |-> "aucune", montant |-> 0, vu |-> FALSE, pc |-> "repos"]]
  /\ tardives = {}

ExPasse(c, op, avant, apres) ==
  /\ exJob[c].op = op /\ exJob[c].pc = avant
  /\ exJob' = [exJob EXCEPT ![c].pc = apres]

(* The sum of the positive balances of a class of accounts: the others are *)
(* filtered out of the income statement.                                   *)
Positif(n) == IF n > 0 THEN n ELSE 0

ResultatNet == Positif(soldes.produits) - Positif(soldes.charges)

(* createJournalEntry and closeFiscalYear both begin by testing the year.  *)
LireExercice(c, op, m) ==
  /\ exJob[c].pc = "repos"
  /\ ~clos
  /\ exJob' = [exJob EXCEPT ![c] = [op |-> op, montant |-> m, vu |-> clos, pc |-> "lu"]]
  /\ UNCHANGED <<arrets, clos, soldes, report, tardives>>

(* A closing has computed its result and is not over.                      *)
ClotureEnCours ==
  \E d \in Appels : exJob[d].op = "cloturer" /\ exJob[d].pc \in {"calcule", "verifie", "reporte"}

(* An entry of a positive amount is a product, of a negative one a charge. *)
Enregistrer(c) ==
  LET m == exJob[c].montant
  IN  /\ ExPasse(c, "ecrire", "lu", "fini")
      /\ soldes' = [produits |-> soldes.produits + Positif(m),
                    charges |-> soldes.charges + Positif(0 - m)]
      /\ tardives' = IF ~exJob[c].vu /\ (clos \/ ClotureEnCours) THEN tardives \cup {c} ELSE tardives
      /\ UNCHANGED <<arrets, clos, report>>

(* The trial balance of balanced entries is balanced; the result is kept.  *)
Calculer(c) ==
  /\ exJob[c].op = "cloturer" /\ exJob[c].pc = "lu"
  /\ exJob' = [exJob EXCEPT ![c].montant = ResultatNet, ![c].pc = "calcule"]
  /\ UNCHANGED <<arrets, clos, soldes, report, tardives>>

(* Mutation: a loss is not carried.                                       *)
MutReportUtile(c) == exJob[c].montant > 0 /\ ComptesReport

ReportUtile(c) == exJob[c].montant # 0 /\ ComptesReport

(* _generateClotureEntry finds nothing to carry, or no account to carry to.*)
SansReport(c) ==
  /\ ~ReportUtile(c)
  /\ ExPasse(c, "cloturer", "calcule", "reporte")
  /\ UNCHANGED <<arrets, clos, soldes, report, tardives>>

(* The closing entry goes through createJournalEntry, which tests the year *)
(* and the reference, and throws.                                          *)
VerifierReport(c) ==
  /\ ReportUtile(c)
  /\ ExPasse(c, "cloturer", "calcule", IF clos \/ report # Rien THEN "refuse" ELSE "verifie")
  /\ UNCHANGED <<arrets, clos, soldes, report, tardives>>

(* The reference is unique in the database too. A profit leaves account    *)
(* 706, a loss account 627.                                                *)
InsererReport(c) ==
  /\ report = Rien
  /\ ExPasse(c, "cloturer", "verifie", "reporte")
  /\ report' = exJob[c].montant
  /\ soldes' = [produits |-> soldes.produits - Positif(exJob[c].montant),
                charges |-> soldes.charges - Positif(0 - exJob[c].montant)]
  /\ UNCHANGED <<arrets, clos, tardives>>

ReportRefuse(c) ==
  /\ report # Rien
  /\ ExPasse(c, "cloturer", "verifie", "refuse")
  /\ UNCHANGED <<arrets, clos, soldes, report, tardives>>

Fermer(c) ==
  /\ ExPasse(c, "cloturer", "reporte", "fini")
  /\ clos' = TRUE
  /\ UNCHANGED <<arrets, soldes, report, tardives>>

ExEtape(c) ==
  \/ \E q \in Quantites : LireExercice(c, "ecrire", q) \/ LireExercice(c, "ecrire", 0 - q)
  \/ LireExercice(c, "cloturer", 0)
  \/ Enregistrer(c) \/ Calculer(c) \/ SansReport(c) \/ VerifierReport(c)
  \/ InsererReport(c) \/ ReportRefuse(c) \/ Fermer(c)

ExArret ==
  /\ arrets < MaxArrets
  /\ arrets' = arrets + 1
  /\ exJob' = [c \in Appels |-> [exJob[c] EXCEPT !.pc = Interrompu(@)]]
  /\ UNCHANGED <<clos, soldes, report, tardives>>

ExNext == ExArret \/ \E c \in Appels : ExEtape(c)

ExSpec == ExInit /\ arrets = 0 /\ [][ExNext]_<<exVars, arrets>>

-----------------------------------------------------------------------------
(* Properties *)

(* A closed year has carried its whole result to the next one, once, in    *)
(* spite of closings that overlap and of a restart between the closing     *)
(* entry and the closing (the next attempt finds a result of zero), unless *)
(* an entry that had found the year open was inserted during the closing   *)
(* or after it. The result is split on accounts 706 and 627 only.          *)
ReportComplet ==
  clos /\ ComptesReport /\ tardives = {} => ResultatNet = 0
=============================================================================
