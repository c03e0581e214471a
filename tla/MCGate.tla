------------------------------- MODULE MCGate -------------------------------
(* Plans of two, three and six steps, a component or suite named twice or   *)
(* two suites whose names join to one in some, on both sides of each        *)
(* threshold in tenths of a thousandth of a percent; suites with            *)
(* destinations of every kind, with no executor, and of a run stored before *)
(* the policy; one name, which DNS may not know or give public and other    *)
(* addresses.                                                               *)
EXTENDS Gate

Routable(embedded) == [routable |-> TRUE, embedded |-> embedded]
Inner    == [routable |-> FALSE, embedded |-> {}]
Public4  == Routable({})
Tunnel   == Routable({Inner})
Named    == [kind |-> "name", name |-> "suite.example"]
Local    == [kind |-> "local"]
At(ip)   == [kind |-> "address", ip |-> ip]

Url(scheme, host) == [parses |-> TRUE, scheme |-> scheme, userinfo |-> FALSE,
                      port |-> 443, host |-> host]

Text(urls)     == [is_url_field |-> FALSE, urls |-> urls, bare |-> {}]
Field(bare)    == [is_url_field |-> TRUE, urls |-> {}, bare |-> {bare}]

MCAnswers == [{"suite.example"} -> SUBSET {Public4, Inner}]

Suite(id, by, config) ==
    [provider |-> by, suite_id |-> id, marked |-> FALSE, suite_config |-> config]

oidf    == Suite(<<"oidf">>, <<"openid">>, {Text({Url("https", Named)})})
rig     == Suite(<<"rig">>, <<"injicertify">>, {Field(Url("none", At(Public4))), Text({})})
mock    == Suite(<<"mock">>, <<"mock">>, {})
failing == [mock EXCEPT !.suite_id = <<"failing">>, !.marked = TRUE]
unknown == Suite(<<"unknown">>, <<"other">>, {})
older   == Suite(<<"older">>, <<"injiverify">>, {Field(Url("none", Local))})
oldest  == Suite(<<"oldest">>, <<"openid">>, {Text({Url("http", At(Tunnel)), Url("ftp", Named)})})

\* "mock:rig" has no executor, and with "v1" it has the id of "mock" with "rig:v1".
mockrig == Suite(<<"v1">>, <<"mock", "rig">>, {})
rigv1   == [mock EXCEPT !.suite_id = <<"rig", "v1">>]

Configured(components, suites) ==
    [components : {components}, test_suites : {suites},
     minimum_pass_rate : {0, 500000, 666667, 666669, 666670, 666680,
                          833325, 833330, 833333, 833334, 833340, Grain * Whole},
     critical_failures_allowed : 0..1]

Distinct ==
    Configured(<<"certify", "verify">>, <<rig>>)
      \cup Configured(<<"certify">>, <<mock, oidf, rig>>)
      \cup Configured(<<"certify", "verify">>, <<mock, oidf, rig>>)
      \cup UNION {Configured(<<"certify">>, <<mock, suite>>) :
                    suite \in {failing, unknown, older, oldest}}

Repeated ==
    Configured(<<"certify", "verify", "certify">>, <<rig>>)
      \cup Configured(<<"certify">>, <<rig, rig>>)
      \cup Configured(<<"certify">>, <<mockrig, rigv1>>)
      \cup Configured(<<"certify">>, <<rigv1, mockrig>>)

MCRuns == Distinct \cup Repeated
=============================================================================
