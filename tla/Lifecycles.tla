----------------------------- MODULE Lifecycles -----------------------------
(***************************************************************************)
(* The status of each kind of row and the moves internal/domain allows.    *)
(* A lifecycle is the set of its <<from, to>> pairs.                       *)
(***************************************************************************)

SiteStatus        == {"draft", "verified", "active", "suspended"}
ScenarioStatus    == {"submitted", "reviewing", "approved", "rejected"}
ReservationStatus == {"pending", "confirmed", "released", "expired"}
DeploymentStatus  == {"queued", "activating", "running",
                      "stopping", "stopped", "failed"}

SiteCanMove(from, to) ==
  <<from, to>> \in {<<"draft", "verified">>,  <<"draft", "suspended">>,
                    <<"verified", "active">>, <<"verified", "suspended">>,
                    <<"active", "suspended">>, <<"suspended", "active">>}

ScenarioCanMove(from, to) ==
  <<from, to>> \in {<<"submitted", "reviewing">>,
                    <<"reviewing", "approved">>, <<"reviewing", "rejected">>}

\* A reservation that still holds capacity. NewReservation never produces
\* "pending": the constant exists in the code and in its guards only.
HoldsCapacity(status) == status \in {"pending", "confirmed"}

ReservationCanMove(from, to) ==
  <<from, to>> \in ({"pending"} \X {"confirmed", "released", "expired"})
                     \cup ({"confirmed"} \X {"released", "expired"})

DeploymentCanMove(from, to) ==
  <<from, to>> \in {<<"queued", "activating">>,  <<"queued", "failed">>,
                    <<"activating", "running">>, <<"activating", "failed">>,
                    <<"running", "stopping">>,   <<"running", "failed">>,
                    <<"stopping", "stopped">>,   <<"stopping", "failed">>}
=============================================================================
