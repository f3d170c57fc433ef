----------------------------- MODULE MCServices ------------------------------
(***************************************************************************)
(* An instance of the services that share no row: risk profiles, document  *)
(* intake, identity, the policy library, the text of policies, what is     *)
(* read in a document and how that is scored, a model's second reading,    *)
(* the contents of plans, what promotions write, and the lists.  A         *)
(* behaviour is one of any of them, the others standing still, so that one *)
(* run explores each without the product of their states.                  *)
(***************************************************************************)
EXTENDS RiskProfiles, DocumentIntake, Identity, PolicyLibrary, PolicyText,
        FieldExtraction, LlmAssistance, PlanContents, ReadModels, ExtractionScore,
        Promotion, TLC

VARIABLE service    \* the one that runs

(* Risk, intake, policies **********************************************)

MCWeight == [DUPLICATE_INVOICE |-> 25, TIMING_ANOMALY |-> 10, VENDOR_SPIKE |-> 20,
             PRICE_VARIANCE |-> 15, QUANTITY_VARIANCE |-> 15, REPEATED_MISMATCH |-> 20]
MCCap == [DUPLICATE_INVOICE |-> 40, TIMING_ANOMALY |-> 20, VENDOR_SPIKE |-> 30,
          PRICE_VARIANCE |-> 30, QUANTITY_VARIANCE |-> 30, REPEATED_MISMATCH |-> 30]
MCRecency == [full |-> 30, high |-> 90, mid |-> 180]
MCBand == [MEDIUM |-> 25, HIGH |-> 50, CRITICAL |-> 75]
MCFindings ==
    {[type |-> "DUPLICATE_INVOICE", severity |-> "CRITICAL", of |-> {"vendor", "invoice"}],
     [type |-> "DUPLICATE_INVOICE", severity |-> "CRITICAL", of |-> {"vendor"}],
     [type |-> "VENDOR_SPIKE", severity |-> "MEDIUM", of |-> {"vendor", "invoice"}]}

MCTargetsOf == "ours" :> "a" @@ "old" :> NoTenant

MCSources == [s |-> <<"near", "far">>, t |-> <<"near">>]
MCDistance == [near |-> 1, far |-> 3]

MCSymmetry == Permutations(Clients) \union Permutations(Emails) \union Permutations(Orgs)

(* Texts of policies: a heading of one and of two characters, and lines    *)
(* with and without a space to cut at **********************************)

MCHeadings == {<<"H">>, <<"K", "K">>}
MCLines == {<<>>, <<"a">>, <<"b", " ", "c">>, <<"d", "e", "f", " ", "g", "h">>,
            <<"i", " ", "j", "k", "l", "m", "n", "o">>}

(* Documents: a number, a name and a date, each written well or not, over  *)
(* item lines of every kind ********************************************)

Line(f, parts) == [label |-> f, parts |-> parts]

NumberLines == {Line(f, parts) : f \in {"invoice_number", "po_number", "grn_number"},
                                 parts \in {<<>>, <<"n1 x", "n1">>, <<"n1", "n2">>, <<"not given">>}}
NameLines == {Line("vendor_name", parts) :
                  parts \in {<<>>, <<"v1 ltd", "v2">>, <<"v1 ltd", "v1 inc">>,
                             <<"v1", "N/A">>}}
DateLines == {Line(f, parts) : f \in DateFields,
                               parts \in {<<"d1">>, <<"d1", "due d2">>, <<"d99">>}}

\* Every phrase above with its words.
MCWords ==
    [p \in {"n1", "n2", "v1", "v2", "N/A", "d1", "d2", "d99", "Number", "x", "ltd", "inc",
            "not", "given", "due"} |-> <<p>>]
    @@ ("n1 x" :> <<"n1", "x">>) @@ ("v1 ltd" :> <<"v1", "ltd">>) @@ ("v1 inc" :> <<"v1", "inc">>)
    @@ ("not given" :> <<"not", "given">>) @@ ("due d2" :> <<"due", "d2">>)
MCPhrases == DOMAIN MCWords

\* A name first, then a label whose value may stand on the next line.
NameFirst == {<<Line("vendor_name", <<"v1">>), a, b, c>> :
                  a \in NumberLines, b \in {Line("text", <<"n2">>), Line("po_number", <<"n2">>)},
                  c \in {Line("order_date", <<"d1">>), Line("invoice_date", <<"d1">>)}}

MCPages == {<<a, b, c>> : a \in NumberLines, b \in NameLines, c \in DateLines} \union NameFirst

ItemRow(q, p) == [qty |-> q, price |-> p]

MCItems ==
    {[table |-> <<>>, stacked |-> <<>>, inline |-> <<ItemRow("pos", "pos")>>, single |-> "none"],
     [table |-> <<ItemRow("none", "none"), ItemRow("pos", "zero")>>,
      stacked |-> <<>>, inline |-> <<>>, single |-> "none"],
     [table |-> <<ItemRow("none", "none")>>,
      stacked |-> <<ItemRow("pos", "pos"), ItemRow("none", "none"), ItemRow("pos", "none")>>,
      inline |-> <<ItemRow("zero", "pos")>>, single |-> "none"],
     [table |-> <<>>, stacked |-> <<ItemRow("nan", "pos")>>, inline |-> <<>>, single |-> "none"],
     [table |-> <<>>, stacked |-> <<>>, inline |-> <<ItemRow("neg", "pos")>>, single |-> "pos"]}

MCPapers ==
    {[format |-> k.format, damaged |-> FALSE, filename |-> k.filename, mentions |-> k.mentions,
      text |-> t, table |-> i.table, stacked |-> i.stacked, inline |-> i.inline,
      single |-> i.single] :
        t \in MCPages, i \in MCItems,
        k \in {[format |-> "pdf", filename |-> {}, mentions |-> {"INVOICE"}],
               [format |-> "xlsx", filename |-> {"PO"}, mentions |-> {}],
               [format |-> "image", filename |-> {"GRN"}, mentions |-> {}]}}
    \union
    {[format |-> f, damaged |-> TRUE, filename |-> {}, mentions |-> {}, text |-> <<>>,
      table |-> <<>>, stacked |-> <<>>, inline |-> <<>>, single |-> "none"] :
        f \in {"pdf", "xlsx", "image", "other"}}

(* Second readings *****************************************************)

Sheet(n, t, lines) == [number |-> n, total |-> t, lines |-> lines]
Item(q, d) == [quantity |-> q, description |-> d]

MCReadings ==
    LET good == Sheet("n1", "t1", <<Item("q1", "d1")>>)
    IN  {[ready |-> TRUE, candidate |-> good], [ready |-> FALSE, candidate |-> good],
         [ready |-> FALSE, candidate |-> Sheet(NoValue, "t1", <<Item("q1", "d1")>>)],
         [ready |-> FALSE, candidate |-> Sheet("n2", NoValue, <<Item("q1", "d1"), Item("q0", "d1")>>)],
         [ready |-> FALSE, candidate |-> Sheet(NoValue, NoValue, <<>>)]}

MCAnswers ==
    {[typed |-> typed, candidate |-> Sheet(n, t, lines), claims |-> claims] :
        typed \in BOOLEAN, n \in {NoValue, "n1", "n2"}, t \in {NoValue, "t1"},
        lines \in {<<>>, <<Item("q1", "d1")>>, <<Item("q1", "d1"), Item("q0", NoValue)>>},
        claims \in {{}, {{"n1"}}, {{"n2", "q1"}}}}

MCCorpora == {{"n1", "q1"}, {"n2", "t1", "q1", "q0"}, {}}

(* Plans ***************************************************************)

Say(what, reason, refers, named) ==
    [what |-> what, reason |-> reason, refers |-> refers, named |-> named]
Step(type, parameters, order) == [type |-> type, parameters |-> parameters, order |-> order]
Proposal(actions) == [status |-> "ACTIONS_PROPOSED", actions |-> actions]

Routing == Say("said", "none", "known", FALSE)
Question == Say("said", "said", "nothing", TRUE)
Demand == Say("said", "said", "unknown", FALSE)
Alarm == Say("none", "said", "nothing", FALSE)
HalfRouting == Say("said", "none", "half", FALSE)

MCParameters == {Routing, Question, Demand, Alarm, HalfRouting}

MCReplies ==
    {Proposal(<<Step("ESCALATE_TO_MANAGER", Alarm, 2), Step("ROUTE_TO_REVIEW", Routing, 1)>>),
     Proposal(<<Step("REQUEST_VENDOR_CLARIFICATION", Question, 1),
                Step("APPROVE_PAYMENT", Question, 1)>>),
     Proposal(<<Step("REQUEST_VENDOR_CLARIFICATION", Question, 1)>>),
     Proposal(<<Step("REQUEST_MISSING_DOCUMENT", Demand, 1)>>),
     Proposal(<<Step("ROUTE_TO_REVIEW", HalfRouting, 1)>>),
     [status |-> "NO_ACTION_RECOMMENDED",
      actions |-> <<Step("ESCALATE_TO_MANAGER", Alarm, 1)>>],
     [status |-> "NO_ACTION_RECOMMENDED", actions |-> <<>>],
     [status |-> "ERROR", actions |-> <<>>]}

(* Papers: two of one order, one of them with a line that gets the number  *)
(* of the other line; a receipt, and invoices of this order and of one     *)
(* that is not on record ***********************************************)

PaperOf(type, number, name, order, lines) ==
    [type |-> type, number |-> number, vendor |-> name, order |-> order, lines |-> lines]

MCApprovedForms ==
    {PaperOf("PO", 1, "acme", 0, <<1, 3>>), PaperOf("PO", 1, "acme", 0, <<2, 0>>),
     PaperOf("GRN", 1, NoName, 1, <<3, 1>>), PaperOf("INVOICE", 1, "acme", 1, <<0, 3>>),
     PaperOf("INVOICE", 2, "apex", 1, <<0>>), PaperOf("INVOICE", 2, "acme", 2, <<0, 4>>)}

MCKnownVendors == {[id |-> 9, name |-> "apex"]}

(* Lists ***************************************************************)

MCFeeds == <<"document", "signal">>
MCFeedOf == 1 :> "document" @@ 2 :> "document" @@ 3 :> "signal"

(* Scores **************************************************************)

Word(w) == [word |-> w, form |-> "plain"]
Other(w) == [word |-> w, form |-> "other"]
Header(n, v, d, a) ==
    [invoice_number |-> n, vendor_name |-> v, invoice_date |-> d, total_amount |-> a]
ScoreLine(id, d, q) == [item_identifier |-> id, description |-> d, quantity |-> q]

MCTruths ==
    {[type |-> "INVOICE", lines |-> lines,
      head |-> Header(Word("n1"), Word("v1"), Omitted, Word("10"))] :
        lines \in {<<ScoreLine(Word("a"), Word("bolt"), Word("1")),
                    ScoreLine(Word("b"), Word("bolt"), Word("2"))>>,
                  <<ScoreLine(Omitted, Word("bolt"), Word("1")),
                    ScoreLine(Omitted, Word("bolt"), Word("1"))>>,
                  <<ScoreLine(Omitted, Word("bolt"), Omitted)>>, <<>>}}
    \union {[type |-> "INVOICE", lines |-> <<>>,
             head |-> Header(Omitted, Omitted, Word("d1"), Omitted)]}

MCPredictions ==
    {[type |-> k, lines |-> lines, head |-> h] :
        k \in {"none", "PURCHASE_ORDER"},
        h \in {Header(Word("n1"), Other("v1"), Omitted, Other("10")),
               Header(Other("n1"), Word("v2"), Word("d1"), Omitted),
               Header(Omitted, Omitted, Other("d1"), Omitted),
               Header(Omitted, Omitted, Omitted, Word("12"))},
        lines \in {<<>>, <<ScoreLine(Omitted, Other("bolt"), Other("1"))>>,
                  <<ScoreLine(Word("b"), Word("bolt"), Other("2")),
                    ScoreLine(Word("a"), Word("bolt"), Word("1"))>>,
                  <<ScoreLine(Omitted, Word("bolt"), Word("2")),
                    ScoreLine(Omitted, Word("bolt"), Word("1"))>>}}
    \union {[type |-> "none", lines |-> <<>>, head |-> Header(Omitted, Omitted, Omitted, Omitted)]}

(* One service at a time ***********************************************)

ServicesInit ==
    /\ service \in {"risk", "intake", "identity", "policy", "text", "extract", "llm", "plan", "read",
                   "score", "promotion"}
    /\ RiskInit /\ IntakeInit /\ IdentityInit /\ PolicyInit /\ ContentInit /\ ReadInit
    /\ ScoreInit
    /\ PromotionInit
    /\ service # "promotion" =>
          approved = [d \in PaperDocuments |-> CHOOSE p \in ApprovedForms : TRUE]
    /\ IF service = "text" THEN TextInit ELSE source = <<>> /\ passages = <<>>
    /\ IF service = "extract" THEN ExtractionInit
       ELSE paper = Nothing /\ declared = "UNKNOWN" /\ reading = Nothing /\ readings = 0
    /\ IF service = "llm" THEN AssistInit
       ELSE m4 = NoValue /\ loaded = NoValue /\ corpus = {} /\ call = NoCall /\ row = NoAssist

ServicesNext ==
    /\ UNCHANGED service
    /\ \/ /\ service = "risk" /\ RiskNext
          /\ UNCHANGED <<intakeVars, identityVars, policyVars, textVars, extractionVars,
                         assistVars, contentVars, readVars, scored, promotionVars>>
       \/ /\ service = "intake" /\ IntakeNext
          /\ UNCHANGED <<riskVars, identityVars, policyVars, textVars, extractionVars,
                         assistVars, contentVars, readVars, scored, promotionVars>>
       \/ /\ service = "identity" /\ IdentityNext
          /\ UNCHANGED <<riskVars, intakeVars, policyVars, textVars, extractionVars,
                         assistVars, contentVars, readVars, scored, promotionVars>>
       \/ /\ service = "policy" /\ PolicyNext
          /\ UNCHANGED <<riskVars, intakeVars, identityVars, textVars, extractionVars,
                         assistVars, contentVars, readVars, scored, promotionVars>>
       \/ /\ service = "text" /\ TextNext
          /\ UNCHANGED <<riskVars, intakeVars, identityVars, policyVars, extractionVars,
                         assistVars, contentVars, readVars, scored, promotionVars>>
       \/ /\ service = "extract" /\ ExtractionNext
          /\ UNCHANGED <<riskVars, intakeVars, identityVars, policyVars, textVars,
                         assistVars, contentVars, readVars, scored, promotionVars>>
       \/ /\ service = "llm" /\ AssistNext
          /\ UNCHANGED <<riskVars, intakeVars, identityVars, policyVars, textVars,
                         extractionVars, contentVars, readVars, scored, promotionVars>>
       \/ /\ service = "plan" /\ ContentNext
          /\ UNCHANGED <<riskVars, intakeVars, identityVars, policyVars, textVars,
                         extractionVars, assistVars, readVars, scored, promotionVars>>
       \/ /\ service = "read" /\ ReadNext
          /\ UNCHANGED <<riskVars, intakeVars, identityVars, policyVars, textVars,
                         extractionVars, assistVars, contentVars, scored, promotionVars>>
       \/ /\ service = "score" /\ ScoreNext
          /\ UNCHANGED <<riskVars, intakeVars, identityVars, policyVars, textVars,
                         extractionVars, assistVars, contentVars, readVars, promotionVars>>
       \/ /\ service = "promotion" /\ PromotionNext
          /\ UNCHANGED <<riskVars, intakeVars, identityVars, policyVars, textVars,
                         extractionVars, assistVars, contentVars, readVars, scored>>

servicesVars == <<service, riskVars, intakeVars, identityVars, policyVars, textVars,
                  extractionVars, assistVars, contentVars, readVars, scored, promotionVars>>

ServicesSpec == ServicesInit /\ [][ServicesNext]_servicesVars

=============================================================================
