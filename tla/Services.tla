------------------------------- MODULE Services -------------------------------
(***************************************************************************)
(* The services around the payment path.  Each keeps tables of its own and *)
(* none of their properties spans two of them, so a behaviour is one of one*)
(* service: the one in focus moves, the others stand at a first state.     *)
(***************************************************************************)
EXTENDS EodClose, AccountingConfig, Treasury, ReferenceData,
        IntegrationConfig, PricingRules, PricingFlows, ChargeConfig,
        Tariffs, AdminAccounts, AdminMfa, CustomerAccounts,
        SanctionsLists, OnboardingConfig, JourneyGraphs, OnboardingJourney,
        CreditRules, CreditCommercial, CreditDecisions, AdminConsole,
        ConsoleWorkspaces, PricingStudio

VARIABLE focus      \* the service that moves

Service == {"eod", "accounting", "treasury", "reference", "integration", "pricing", "flows",
            "charges", "tariffs", "admins", "mfa", "customers", "sanctions", "config",
            "graphs", "journey", "rules", "terms", "decisions", "console", "workspaces",
            "studio"}

servicesVars == <<focus, eodVars, accountingVars, treasuryVars, refVars, integrationVars,
                  pricingVars, flowVars, chargeVars, tariffVars, adminVars,
                  mfaVars, customerVars, sanctionsVars, configVars, graphVars,
                  journeyVars, creditRuleVars, commercialVars, creditVars, consoleVars,
                  workspaceVars, studioVars>>

OneOf(S) == CHOOSE x \in S : TRUE

(* Which of its first states a service out of focus stands at.              *)
AtRest ==
  /\ IF focus = "eod" THEN scope \in {x \in Scopes : x.running # {}}
     ELSE /\ scope \in {x \in Scopes : x.running = {}}
          /\ fault = [c \in Currency |-> [d \in Day |-> FALSE]]
  /\ focus # "accounting" => configs = {}
  /\ focus # "reference" => live = [k \in RefKey |-> NoProfile]
  /\ focus # "pricing" => definition = OneOf(RawPricing)
  /\ focus # "charges" => header = OneOf(FirstHeader)
  /\ focus # "tariffs" => tables = OneOf(TariffTables)
  /\ focus # "graphs" => graph = OneOf(CandidateGraph)
  /\ focus # "rules" => budget = OneOf(CreditBudget)
  /\ focus # "decisions" => execution = OneOf(FirstExecution) /\ bindingLive = TRUE
  /\ focus # "console" => configured = TRUE /\ consoleScope = OneOf(ConsoleScopes)
  /\ focus # "studio" => studioScope = OneOf(StudioScopes)

ServicesInit ==
  /\ focus \in Service /\ AtRest
  /\ EodInit /\ AccountingInit /\ TreasuryInit /\ RefInit
  /\ IntegrationInit /\ PricingInit /\ FlowInit /\ ChargeInit
  /\ TariffInit /\ AdminInit /\ MfaInit /\ CustomerInit
  /\ SanctionsInit /\ ConfigInit /\ GraphInit /\ JourneyInit
  /\ CreditRuleInit /\ CommercialInit /\ CreditDecisionInit /\ ConsoleInit
  /\ WorkspaceInit /\ StudioInit

(* Every service but s stands still.                                        *)
Others(s) ==
  /\ UNCHANGED focus
  /\ s # "eod" => UNCHANGED eodVars
  /\ s # "accounting" => UNCHANGED accountingVars
  /\ s # "treasury" => UNCHANGED treasuryVars
  /\ s # "reference" => UNCHANGED refVars
  /\ s # "integration" => UNCHANGED integrationVars
  /\ s # "pricing" => UNCHANGED pricingVars
  /\ s # "flows" => UNCHANGED flowVars
  /\ s # "charges" => UNCHANGED chargeVars
  /\ s # "tariffs" => UNCHANGED tariffVars
  /\ s # "admins" => UNCHANGED adminVars
  /\ s # "mfa" => UNCHANGED mfaVars
  /\ s # "customers" => UNCHANGED customerVars
  /\ s # "sanctions" => UNCHANGED sanctionsVars
  /\ s # "config" => UNCHANGED configVars
  /\ s # "graphs" => UNCHANGED graphVars
  /\ s # "journey" => UNCHANGED journeyVars
  /\ s # "rules" => UNCHANGED creditRuleVars
  /\ s # "terms" => UNCHANGED commercialVars
  /\ s # "decisions" => UNCHANGED creditVars
  /\ s # "console" => UNCHANGED consoleVars
  /\ s # "workspaces" => UNCHANGED workspaceVars
  /\ s # "studio" => UNCHANGED studioVars

ServicesNext ==
  \/ focus = "eod" /\ EodNext /\ Others("eod")
  \/ focus = "accounting" /\ AccountingNext /\ Others("accounting")
  \/ focus = "treasury" /\ TreasuryNext /\ Others("treasury")
  \/ focus = "reference" /\ RefNext /\ Others("reference")
  \/ focus = "integration" /\ IntegrationNext /\ Others("integration")
  \/ focus = "pricing" /\ PricingNext /\ Others("pricing")
  \/ focus = "flows" /\ FlowNext /\ Others("flows")
  \/ focus = "charges" /\ ChargeNext /\ Others("charges")
  \/ focus = "tariffs" /\ TariffNext /\ Others("tariffs")
  \/ focus = "admins" /\ AdminNext /\ Others("admins")
  \/ focus = "mfa" /\ MfaNext /\ Others("mfa")
  \/ focus = "customers" /\ CustomerNext /\ Others("customers")
  \/ focus = "sanctions" /\ SanctionsNext /\ Others("sanctions")
  \/ focus = "config" /\ ConfigNext /\ Others("config")
  \/ focus = "graphs" /\ GraphNext /\ Others("graphs")
  \/ focus = "journey" /\ JourneyNext /\ Others("journey")
  \/ focus = "rules" /\ CreditRuleNext /\ Others("rules")
  \/ focus = "terms" /\ CommercialNext /\ Others("terms")
  \/ focus = "decisions" /\ CreditDecisionNext /\ Others("decisions")
  \/ focus = "console" /\ ConsoleNext /\ Others("console")
  \/ focus = "workspaces" /\ WorkspaceNext /\ Others("workspaces")
  \/ focus = "studio" /\ StudioNext /\ Others("studio")

(* A service out of focus has no fair action that is enabled.               *)
ServicesSpec ==
  ServicesInit /\ [][ServicesNext]_servicesVars /\ EodFairness /\ ChargeFairness

-----------------------------------------------------------------------------
ServicesTypeOK ==
  /\ focus \in Service
  /\ focus = "eod" => EodTypeOK
  /\ focus = "accounting" => AccountingTypeOK
  /\ focus = "treasury" => TreasuryTypeOK
  /\ focus = "reference" => RefTypeOK
  /\ focus = "integration" => IntegrationTypeOK
  /\ focus = "pricing" => PricingTypeOK
  /\ focus = "flows" => FlowTypeOK
  /\ focus = "charges" => ChargeTypeOK
  /\ focus = "tariffs" => TariffTypeOK
  /\ focus = "admins" => AdminTypeOK
  /\ focus = "mfa" => MfaTypeOK
  /\ focus = "customers" => CustomerTypeOK
  /\ focus = "sanctions" => SanctionsTypeOK
  /\ focus = "config" => ConfigTypeOK
  /\ focus = "graphs" => GraphTypeOK
  /\ focus = "journey" => JourneyTypeOK
  /\ focus = "rules" => CreditRuleTypeOK
  /\ focus = "terms" => CommercialTypeOK
  /\ focus = "decisions" => CreditDecisionTypeOK
  /\ focus = "console" => ConsoleTypeOK
  /\ focus = "workspaces" => WorkspaceTypeOK
  /\ focus = "studio" => StudioTypeOK

(* Accounting: a day is closed by one run, with every journal of the day in *)
(* its snapshot, and under one configuration.                               *)
AccountingSound == ClosedOnce /\ ClosedDayWhole /\ OneConfiguration

(* Treasury: money moves as approved, and the evidence stays.               *)
TreasurySound == TreasuryBooks /\ EvidenceKept

(* Prices: a stored definition has one answer for an amount, and a charge   *)
(* or commission comes from one approved row in force.                      *)
QuotesSound == StoredPricingSound /\ TariffSound

(* Administrators: one who may govern the others remains, and what a token  *)
(* says of its holder is current.                                           *)
AdminsSound == SuperRemains /\ ClaimsCurrent

(* The console: it keeps its session and the recovery PIN on the page, and  *)
(* a workspace shows one record, writes to the one it shows, frees its      *)
(* controls and knows what its batches did; the AML simulator answers as    *)
(* the reservation; the pricing studio draws what the service applies,      *)
(* connects what was picked and creates a draft once.                       *)
ConsoleSound ==
  /\ SessionKept /\ PinKept /\ WritesOnDisplay /\ OneRecordShown /\ ControlsFreed /\ BatchesSound
  /\ SimulatorAgrees
  /\ focus = "studio" => CanvasTruthful /\ DraftsCreatedOnce /\ ConnectsPicked

(* Customers: one usable main wallet, a profile that agrees with its KYC    *)
(* cases, screened against whole lists.                                     *)
CustomersSound == MainWalletUsable /\ KycAgrees /\ ListsWhole

(* Onboarding: journeys in force were validated and reviewed, and the       *)
(* validation and the simulation agree with the graph they judge; a wallet  *)
(* is allocated after the steps its journey asks for.                       *)
JourneysGoverned == ConfigGoverned /\ GraphsJudged /\ WalletEarned

(* Credit: policies and commercial terms in force were reviewed as they     *)
(* are, and what is granted stays within the policy.                        *)
CreditSound == PolicyReviewed /\ TermsAsApproved /\ CreditWithinPolicy
=============================================================================
