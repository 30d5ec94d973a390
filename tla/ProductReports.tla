----------------------------- MODULE ProductReports -----------------------------
(***************************************************************************)
(* The research wizard: ProductPipeline runs a research of a brand and has *)
(* seven engines derive something from it, each of which commits what it   *)
(* finds; it stores their answers with the research, compares it with the  *)
(* one before and announces the report.  A run may fail or die anywhere    *)
(* and nothing resumes it.  Requests to compare again, and edits of the    *)
(* research, come in between.                                              *)
(*                                                                         *)
(* What the engines find is left out; a score is a number.                 *)
(***************************************************************************)
EXTENDS Naturals, Sequences, FiniteSets

CONSTANTS ProductRequests,  \* requests in progress at once
          MaxProducts,      \* bound on researches of the brand
          MaxScore,         \* bound on a score
          Significant       \* the difference that is announced

ASSUME ProductAssumption == MaxProducts \in Nat /\ MaxScore \in Nat /\ Significant \in Nat \ {0}

VARIABLES product,      \* table researches with what was derived from each, in order of creation
          series,       \* whether the brand has its row in trend_series
          prodReq       \* requests in progress

productVars == <<product, series, prodReq>>

Engines == <<"recommendations", "graph", "analytics", "benchmark", "insights", "trend", "advice">>
Derived == {Engines[k] : k \in DOMAIN Engines}
ProductIds == 1..MaxProducts

\* change: whether it has its row in research_changes; previous: what that names, 0 if
\* no earlier research; ready, moved: its notices in table notifications; ran: history,
\* whether the research ever was COMPLETED.
Product == [status : {"ACTIVE", "COMPLETED", "FAILED"}, ran : BOOLEAN, score : 0..MaxScore,
            meta : {"own", "patched", "artifacts"}, derived : SUBSET Derived,
            change : BOOLEAN, previous : 0..MaxProducts, ready : 0..2, moved : BOOLEAN]

NoProductRequest == [pc |-> "idle"]
\* pc: the engine or the commit that comes next; whole: run by the wizard, and not a
\* request to compare only; row: whether build or detect has found its row.
ProductRequest == [pc : Derived \cup {"run", "build", "artifacts", "compare", "ready"},
                   id : ProductIds, whole : BOOLEAN, row : BOOLEAN]
\* was: what the row named when it was found; far: the scores differ significantly.
Comparing == [pc : {"save", "moved"}, id : ProductIds, whole : BOOLEAN, row : BOOLEAN,
              was : 0..MaxProducts, previous : 0..MaxProducts, far : BOOLEAN]

ProductsTypeOK ==
    /\ product \in Seq(Product) /\ Len(product) <= MaxProducts
    /\ series \in BOOLEAN
    /\ prodReq \in [ProductRequests -> {NoProductRequest} \cup ProductRequest \cup Comparing]

ProductsInit ==
    /\ product = <<>> /\ series = FALSE
    /\ prodReq = [q \in ProductRequests |-> NoProductRequest]

ProductTo(q, s) == prodReq' = [prodReq EXCEPT ![q] = s]
ProductOver(q) == ProductTo(q, NoProductRequest)
Onto(q, pc) == [pc |-> pc, id |-> prodReq[q].id, whole |-> prodReq[q].whole, row |-> FALSE]

-----------------------------------------------------------------------------
(***************************************************************************)
(* The wizard                                                              *)
(***************************************************************************)
\* review accepts the request: the template, the prompt, the models and their
\* providers are there.
CreateProduct(q) ==
    /\ prodReq[q] = NoProductRequest
    /\ Len(product) < MaxProducts
    /\ product' = Append(product, [status |-> "ACTIVE", ran |-> FALSE, score |-> 0,
                                   meta |-> "own", derived |-> {}, change |-> FALSE, previous |-> 0,
                                   ready |-> 0, moved |-> FALSE])
    /\ ProductTo(q, [pc |-> "run", id |-> Len(product'), whole |-> TRUE, row |-> FALSE])
    /\ UNCHANGED series

\* A stored status; history: whether the research has ever been COMPLETED.
WithStatus(row, status) ==
    [row EXCEPT !.status = status, !.ran = IF status = "COMPLETED" THEN TRUE ELSE @]

\* run_research: a research that failed may have a score too.
RunProduct(q, status, score) ==
    /\ prodReq[q].pc = "run"
    /\ product' = [product EXCEPT ![prodReq[q].id] =
           [WithStatus(@, status) EXCEPT !.score = score]]
    /\ ProductTo(q, Onto(q, "recommendations"))
    /\ UNCHANGED series

Following(engine) ==
    LET k == CHOOSE j \in DOMAIN Engines : Engines[j] = engine
    IN  IF k < Len(Engines) THEN Engines[k + 1] ELSE "artifacts"

\* An engine commits all it finds at once.
Derives(q, engine) ==
    /\ product' = [product EXCEPT ![prodReq[q].id].derived = @ \cup {engine}]
    /\ ProductTo(q, Onto(q, Following(engine)))

\* Without a score the engine refuses.
Recommend(q) ==
    /\ prodReq[q].pc = "recommendations"
    /\ IF product[prodReq[q].id].score > 0 THEN Derives(q, "recommendations")
       ELSE UNCHANGED product /\ ProductOver(q)
    /\ UNCHANGED series

BuildGraph(q) == prodReq[q].pc = "graph" /\ Derives(q, "graph") /\ UNCHANGED series
Analyse(q) == prodReq[q].pc = "analytics" /\ Derives(q, "analytics") /\ UNCHANGED series
Benchmark(q) == prodReq[q].pc = "benchmark" /\ Derives(q, "benchmark") /\ UNCHANGED series
FindInsights(q) == prodReq[q].pc = "insights" /\ Derives(q, "insights") /\ UNCHANGED series

FindSeries(q) ==
    /\ prodReq[q].pc = "trend"
    /\ ProductTo(q, [Onto(q, "build") EXCEPT !.row = series])
    /\ UNCHANGED <<product, series>>

\* uq_trend_series_entity_version: the second of two first series ends its request.
BuildTrend(q) ==
    /\ prodReq[q].pc = "build"
    /\ IF series /\ ~prodReq[q].row THEN UNCHANGED product /\ ProductOver(q)
       ELSE Derives(q, "trend")
    /\ series' = TRUE

\* It stores nothing where no provider was used.
Advise(q) == prodReq[q].pc = "advice" /\ Derives(q, "advice") /\ UNCHANGED series

\* The metadata it loaded when it created the research, and the answers: an edit in
\* between is overwritten.
StoreArtifacts(q) ==
    /\ prodReq[q].pc = "artifacts"
    /\ product' = [product EXCEPT ![prodReq[q].id].meta = "artifacts"]
    /\ ProductTo(q, Onto(q, "compare"))
    /\ UNCHANGED series

\* An edit replaces the metadata, the answers of the engines with it, and may set any
\* status.
PatchProduct(p, status) ==
    /\ product[p].meta # "patched"
    /\ product' = [product EXCEPT ![p] = [WithStatus(@, status) EXCEPT !.meta = "patched"]]
    /\ UNCHANGED <<series, prodReq>>

-----------------------------------------------------------------------------
(***************************************************************************)
(* Change detection and the notices                                        *)
(***************************************************************************)
DetectAgain(q, p) ==
    /\ prodReq[q] = NoProductRequest
    /\ ProductTo(q, [pc |-> "compare", id |-> p, whole |-> FALSE, row |-> FALSE])
    /\ UNCHANGED <<product, series>>

Earlier_AnyStatus(p) == 1..(p - 1)
Earlier(p) == {j \in 1..(p - 1) : product[j].status = "COMPLETED"}
Previous(p) ==
    IF Earlier(p) = {} THEN 0 ELSE CHOOSE j \in Earlier(p) : \A k \in Earlier(p) : k <= j

Distance(m, n) == IF m > n THEN m - n ELSE n - m
Far(p, j) ==
    /\ j # 0 /\ product[p].score > 0
    /\ product[j].score > 0 /\ Distance(product[p].score, product[j].score) >= Significant

\* pair: the research and the latest completed one before it.
Compare(q) ==
    /\ prodReq[q].pc = "compare"
    /\ LET p == prodReq[q].id
       IN  ProductTo(q, [pc |-> "save", id |-> p, whole |-> prodReq[q].whole,
                         row |-> product[p].change, was |-> product[p].previous,
                         previous |-> Previous(p), far |-> Far(p, Previous(p))])
    /\ UNCHANGED <<product, series>>

\* research_changes.research_id is unique: the second of two first comparisons ends
\* its request, the announcement of the report with it.  A row that was found is
\* written where the comparison differs from it.
SaveChange(q) ==
    /\ prodReq[q].pc = "save"
    /\ LET p == prodReq[q].id
       IN  IF product[p].change /\ ~prodReq[q].row
           THEN UNCHANGED product /\ ProductOver(q)
           ELSE /\ product' = [product EXCEPT ![p].change = TRUE,
                      ![p].previous = IF prodReq[q].row /\ prodReq[q].previous = prodReq[q].was THEN @
                                      ELSE prodReq[q].previous]
                /\ ProductTo(q, IF ~prodReq[q].whole THEN NoProductRequest
                                ELSE IF prodReq[q].far THEN [prodReq[q] EXCEPT !.pc = "moved"]
                                ELSE Onto(q, "ready"))
    /\ UNCHANGED series

\* A notice and its delivery are two commits; only the first has consequences here.
EmitMoved(q) ==
    /\ prodReq[q].pc = "moved"
    /\ product' = [product EXCEPT ![prodReq[q].id].moved = TRUE]
    /\ ProductTo(q, Onto(q, "ready"))
    /\ UNCHANGED series

EmitReady(q) ==
    /\ prodReq[q].pc = "ready"
    /\ product' = [product EXCEPT ![prodReq[q].id].ready = @ + 1]
    /\ ProductOver(q)
    /\ UNCHANGED series

\* An engine fails, or the process dies.
ProductStops(q) ==
    /\ prodReq[q].pc # "idle"
    /\ ProductOver(q)
    /\ UNCHANGED <<product, series>>

ProductsNext ==
    \/ \E p \in DOMAIN product, status \in {"ACTIVE", "COMPLETED", "FAILED"} : PatchProduct(p, status)
    \/ \E q \in ProductRequests :
        \/ CreateProduct(q)
        \/ \E status \in {"COMPLETED", "FAILED"}, score \in 0..MaxScore : RunProduct(q, status, score)
        \/ Recommend(q) \/ BuildGraph(q) \/ Analyse(q) \/ Benchmark(q) \/ FindInsights(q)
        \/ FindSeries(q) \/ BuildTrend(q) \/ Advise(q)
        \/ StoreArtifacts(q)
        \/ \E p \in DOMAIN product : DetectAgain(q, p)
        \/ Compare(q)
        \/ SaveChange(q)
        \/ EmitMoved(q)
        \/ EmitReady(q)
        \/ ProductStops(q)

-----------------------------------------------------------------------------
(***************************************************************************)
(* Properties                                                              *)
(***************************************************************************)
\* _complete_product_pipeline and detect: the notice that a report is ready is sent
\* once, after every engine has committed what it derived and the research was
\* compared; answers stored with a research are those of all engines; and a
\* comparison names an earlier research that had completed, whose distance is what a
\* notice of a change announces.
ReportHonest ==
    \A p \in DOMAIN product :
        /\ product[p].ready > 0 => /\ product[p].ready = 1
                                   /\ product[p].derived = Derived
                                   /\ product[p].change
        /\ product[p].meta = "artifacts" => product[p].derived = Derived
        /\ product[p].previous # 0 =>
            product[p].previous < p /\ product[product[p].previous].ran
        /\ product[p].moved => \E j \in 1..(p - 1) : Far(p, j)

===============================================================================
