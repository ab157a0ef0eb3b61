----------------------------- MODULE MCEventLoop -----------------------------
(***************************************************************************)
(* The instance of EventLoop for TLC: "push" matches the first of two      *)
(* rules of a rate-limited policy, which emits "built"; a second policy    *)
(* watches both; "junk" is an event whose payload does not parse.  The     *)
(* third policy is the poison: the last action of its first rule raises,   *)
(* and so does the evaluation of its second.                               *)
(***************************************************************************)
EXTENDS EventLoop

MCKinds == {"push", "built", "junk", "bad"}
MCMalformed == {"junk"}

RuleOn(on, raises, acts) == [on |-> on, raises |-> raises, acts |-> acts]

MCPolicies ==
    << << RuleOn({"push"}, {}, <<"shell", "built">>),
          RuleOn({"junk"}, {}, <<"shell">>) >>,
       << RuleOn({"push", "built"}, {}, <<"shell">>) >>,
       << RuleOn({"bad"}, {}, <<"shell", "broken">>),
          RuleOn({"bad"}, {"bad"}, <<>>) >> >>
=============================================================================
