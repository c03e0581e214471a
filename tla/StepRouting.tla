----------------------------- MODULE StepRouting -----------------------------
(***************************************************************************)
(* What is decided before an executor gets a step: the policy on outbound  *)
(* destinations (outbound.py), applied without DNS to a new test run       *)
(* (schemas.py) and with DNS before each step (orchestrator.py), and the   *)
(* registry of executors (executors.py).                                   *)
(*                                                                         *)
(* A destination is what the policy looks at in a URL, or in a bare host   *)
(* (scheme "none"): whether the text parses, its scheme, userinfo, port    *)
(* and host.  A host is an address, a name, a local name (localhost,       *)
(* *.internal and the like), or none of them.                              *)
(***************************************************************************)
EXTENDS Naturals

\* An IPv6 address may have IPv4 addresses in it (mapped, 6to4, Teredo, NAT64).
Public(ip) == ip.routable /\ \A v4 \in ip.embedded : v4.routable

Malformed(value) ==
    \/ ~value.parses
    \/ value.scheme \notin {"none", "http", "https"}
    \/ value.userinfo
    \/ value.port = 0
    \/ value.host.kind = "invalid"

\* validate_outbound_url(value, resolve=False)
Rejected(value) ==
    \/ Malformed(value)
    \/ value.host.kind = "address" /\ ~Public(value.host.ip)
    \/ value.host.kind = "local"

\* validate_outbound_url(value, resolve=True), where dns has the addresses of
\* each name: every one must be public, and there must be one.
RejectedNow(value, dns) ==
    \/ Rejected(value)
    \/ /\ value.host.kind = "name"
       /\ \/ dns[value.host.name] = {}
          \/ \E ip \in dns[value.host.name] : ~Public(ip)

\* iter_outbound_urls(): the URLs in any of the configuration's strings, and
\* the whole of a field for URLs that has none.
Destinations(config) ==
    UNION {IF text.is_url_field /\ text.urls = {} THEN text.bare ELSE text.urls :
             text \in config}

\* outbound_destinations_must_be_safe(), of one suite of a new test run.
AcceptedWhenNew(config) == \A value \in Destinations(config) : ~Rejected(value)

\* Mutated: only what takes DNS is looked at again.
AcceptedNowByName(config, dns) ==
    \A value \in Destinations(config) :
        value.host.kind = "name" => ~RejectedNow(value, dns)

\* validate_suite_config_urls(resolve=True)
AcceptedNow(config, dns) == \A value \in Destinations(config) : ~RejectedNow(value, dns)

-----------------------------------------------------------------------------

Registered == {<<"mock">>, <<"openid">>, <<"injicertify">>, <<"injiverify">>}

\* MockTestStepExecutor: FAILED if the suite's id or name contains "fail".
MockStatus(step) == IF step.marked THEN "FAILED" ELSE "PASSED"

\* _run_step_safely(): how the step may end.  Executors are not modelled here;
\* one that raises is a FAILED step.
Outcomes(step, dns, executor_statuses) ==
    IF ~AcceptedNow(step.suite_config, dns) \/ step.provider \notin Registered
      THEN {"FAILED"}
      ELSE IF step.provider = <<"mock">>
             THEN {MockStatus(step)}
             ELSE executor_statuses \cup {"FAILED"}
=============================================================================
