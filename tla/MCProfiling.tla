----------------------------- MODULE MCProfiling -----------------------------
(***************************************************************************)
(* One instance for the modules that measure a function and act on what they *)
(* measured.  A behaviour has one subject, and only the variables of that    *)
(* subject change: the feedback tables under a load that remembers an event, *)
(* the promotion of a caller, the shapes of a site, or the price of a        *)
(* compile and the trial of its code.                                        *)
(***************************************************************************)
EXTENDS Promotion, ShapeFeedback, TierPolicy

CONSTANTS f1, f2

VARIABLE subject

mcVars == <<subject, promotionVars, shapeVars, policyVars>>

-----------------------------------------------------------------------------
Facts == {"loopCall", "callOnly", "direct", "inlines", "recursive", "field", "numeric", "elements",
          "untranslatable", "exceptions", "selfCall"}

Binaries == {<<"int32", "int32", "int32", FALSE>>, <<"int32", "object", "object", TRUE>>}

\* A load of the feedback tables; `tables` is the limit, the capacity and the
\* kinds.  Where nothing is promoted the caller is one that is never queued.
Watch(events, fns, types, args, tables) ==
  [events |-> events, fns |-> fns, pcs |-> {1}, types |-> types, args |-> args, limit |-> tables[1],
   capacity |-> tables[2], kinds |-> tables[3], binaries |-> Binaries, callees |-> Function,
   recent |-> 2, arrays |-> Accesses \X ArrayModes \X BOOLEAN, history |-> TRUE,
   ready |-> FALSE, body |-> [x \in Facts |-> x = "callOnly"], attempts |-> 0]

\* The same with a second site of each kind.
TwoSites(watch) == [watch EXCEPT !.pcs = {1, 2}]

UpTo(n, types) == UNION {[1..k -> types] : k \in 0..n}

FeedbackLoads ==
  { Watch({"type"}, {f1, f2}, {"int32", "bool"}, {<<>>}, <<1, 2, {"value", "exit"}>>),
    Watch({"type", "call"}, {f1, f2}, {"int32"}, UpTo(1, {"int32"}), <<1, 1, {"exit"}>>),
    Watch({"call"}, {f1}, {"int32"},
          UpTo(1, {"int32", "bool", "object"}) \cup {<<"int32", "int32">>, <<"int32", "bool">>},
          <<2, 1, {}>>),
    Watch({"type", "call", "binary"}, {f1}, {"int32", "object"},
          {<<"int32">>, <<"object">>}, <<1, 1, {"exit"}>>),
    Watch({"signature"}, {f1}, {"int32", "object"}, UpTo(1, {"int32", "object"}), <<1, 1, {}>>),
    Watch({"conversion", "branch"}, {f1}, {"int32", "bool", "object"}, {<<>>}, <<2, 1, {}>>),
    Watch({"array"}, {f1, f2}, {"int32"}, {<<>>}, <<2, 1, {}>>),
    TwoSites(Watch({"type", "call"}, {f1}, {"int32", "bool"}, {<<>>}, <<1, 2, {"exit"}>>)) }

\* A load of the promotion of a caller with this bytecode.
Promote(events, kinds, types, args, attempts, facts) ==
  [events |-> events, fns |-> {Caller}, pcs |-> {1}, types |-> types, args |-> args, limit |-> 1,
   capacity |-> 2, kinds |-> kinds, binaries |-> {<<"int32", "int32", "int32", FALSE>>},
   arrays |-> {<<"load", "int32", FALSE>>, <<"load", "generic", FALSE>>}, callees |-> {Callee},
   recent |-> 1, history |-> FALSE, attempts |-> attempts, ready |-> "callOnly" \in facts,
   body |-> [x \in Facts |-> x \in facts]]

\* The callee is the caller itself.
Recursive(promote) == [promote EXCEPT !.callees = {Caller}]

PromotionLoads ==
  { Promote({"signature"}, {}, {"int32"}, {<<>>}, 1, {"loopCall", "inlines", "direct"}),
    Promote({"signature"}, {}, {"int32"}, {<<>>}, 2, {"loopCall", "recursive", "field"}),
    Promote({"signature"}, {}, {"int32"}, {<<>>}, 1, {"callOnly", "direct"}),
    Promote({"signature"}, {}, {"int32"}, {<<>>}, 1, {"callOnly", "recursive"}),
    Promote({"array"}, {}, {"int32"}, {<<>>}, 1, {}),
    Promote({"type", "call"}, {"exit"}, {"int32", "object"}, {<<"object">>}, 1,
            {"numeric", "elements"}),
    Promote({"type", "call"}, {"exit", "value"}, {"bool"}, {<<>>}, 1, {"numeric"}),
    Promote({}, {}, {"int32"}, {<<>>}, 1, {"untranslatable"}),
    Promote({}, {}, {"int32"}, {<<>>}, 1, {"exceptions"}),
    Recursive(Promote({"signature", "type", "call"}, {"exit"}, {"bool"}, {<<>>}, 1,
                      {"callOnly", "selfCall"})) }

MCLoads == FeedbackLoads \cup PromotionLoads

\* Profiles at the corners: nothing measured, nothing to save, exact division
\* and remainder, and sums and products that do not fit.
MCProfiles ==
  [bytecodes : {0, 8, 9}, helpers : {0, 2}, compile : {0, 1, 9, MaxU64}, install : {0, 1, MaxU64 - 9},
   executions : {0, 2, 3}, interpreter : {0, 24, MaxU64}, baseline : {0, 7, 24, 60, MaxU64},
   optimized : {0, 9}]

-----------------------------------------------------------------------------
FirstProfile == CHOOSE q \in Profiles : TRUE

MCInit ==
  /\ subject \in {"feedback", "promotion", "shape", "policy"}
  /\ load \in (IF subject = "feedback" THEN FeedbackLoads
               ELSE IF subject = "promotion" THEN PromotionLoads
               ELSE {CHOOSE l \in FeedbackLoads : TRUE})
  /\ profile \in (IF subject = "policy" THEN Profiles ELSE {FirstProfile})
  /\ PromotionInit /\ ShapeInit /\ PolicyInit

FeedbackStep == subject = "feedback" /\ FeedbackNext /\ UNCHANGED <<p, shapeVars, policyVars>>
PromotionStep == subject = "promotion" /\ PromotionNext /\ UNCHANGED <<shapeVars, policyVars>>
ShapeStep == subject = "shape" /\ ShapeNext /\ UNCHANGED <<promotionVars, policyVars>>

\* One profile is enough to start the trial from.
PolicyStep == /\ subject = "policy" /\ profile = FirstProfile
              /\ PolicyNext /\ UNCHANGED <<promotionVars, shapeVars>>

MCNext == (FeedbackStep \/ PromotionStep \/ ShapeStep \/ PolicyStep) /\ UNCHANGED subject

MCSpec == /\ MCInit /\ [][MCNext]_mcVars
          /\ subject = "promotion" => []<><<Callback>>_promotionVars
=============================================================================
