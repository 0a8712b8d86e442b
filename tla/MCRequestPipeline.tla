----------------------- MODULE MCRequestPipeline -----------------------
(* RequestPipeline on small instances.  The messages of Deviating differ     *)
(* from the documented one of their endpoint in at most two values; those of *)
(* Timely differ in when they were signed.                                   *)
EXTENDS RequestPipeline, TLC

CONSTANT Sender

Message(path, body, values, signedAt) ==
  [path |-> path, body |-> body, values |-> values, signedAt |-> signedAt,
   sender |-> Sender]

AsDocumented == {<<>>}

OneDeviation ==
  [path \in {GovPay, Bacs} |->
     UNION {{f :> k : k \in KindsOf(f) \ {Documented(f)}} : f \in Fields(path)}]

TwoDeviations(path) == {c @@ d : c, d \in OneDeviation[path]}

\* Bound: two deviations; the bodies that are not JSON, with one.
Deviating ==
  UNION {
    {Message(path, "json", values, 0) : values \in AsDocumented \cup TwoDeviations(path)}
    \cup
    {Message(path, body, values, 0) :
       body \in {"form", "none", "invalid", "tooLarge"},
       values \in AsDocumented \cup OneDeviation[path]} :
    path \in {GovPay, Bacs}}

DeviatingDates ==
  {Message(GovPay, "json", "created_date" :> k, 0) :
     k \in KindsOf("created_date") \ {"good"}}

\* Bound: messages signed now or later, up to the bound of the clock.
Timely ==
  {Message(Bacs, "json", <<>>, t) : t \in Times} \cup {Message(GovPay, "json", <<>>, 0)}

\* Slots are alike.
Symmetry == Permutations(Requests)
========================================================================
