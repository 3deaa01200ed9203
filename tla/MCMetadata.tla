----------------------------- MODULE MCMetadata -----------------------------
(***************************************************************************)
(* Streams of small objects for TLC.  Two keys differ in case only.  The   *)
(* bodies are one that is valid and those that differ from it in one or    *)
(* two places.                                                             *)
(***************************************************************************)
EXTENDS Metadata

MCField == [apiVersion |-> "apiVersion", kind |-> "kind", KIND |-> "kind",
            requests |-> "requests", x |-> None]

Attributes == {<< >>, [string |-> "sm"], [string |-> "sm", ints |-> {1}],
               [int |-> 3], [int |-> 5], [int |-> 1, bool |-> TRUE],
               [ints |-> {1, 5}], [ints |-> {}], [bools |-> {TRUE}],
               [versions |-> {"v1", "v2"}]}

Dev(driver, pool, name, attributes) ==
    [driver |-> driver, pool |-> pool, name |-> name, attributes |-> attributes]

Plain == Dev(<<"d">>, <<"p">>, <<"n">>, << >>)

Devices == {Plain, Dev(<<"e">>, <<"p">>, <<"n">>, << >>),
            Dev(<<"d">>, <<"p", "p">>, <<"n">>, << >>),
            Dev(<<"d">>, <<"p">>, <<"p", "n">>, << >>),
            Dev(<<"d">>, << >>, <<"n">>, << >>)}
           \cup {Dev(<<"d">>, <<"p">>, <<"n">>, [arch |-> a]) : a \in Attributes}
           \cup {Dev(<<"d">>, <<"p">>, <<"m">>, [x \in {"arch", n} |-> [int |-> 0]]) :
                    n \in {"", "mem"}}

Req(name, devices) == [name |-> name, devices |-> devices]

MCBody ==
    {<< >>, <<Req("gpu", << >>)>>, <<Req("", <<Plain>>)>>,
     <<Req("gpu", <<Plain>>), Req("gpu", <<Plain>>)>>,
     <<Req("gpu", <<Plain>>), Req("nic", <<Plain>>)>>,
     <<Req("gpu", <<Plain>>), Req("nic", <<Plain>>), Req("cpu", <<Plain>>)>>,
     <<Req("gpu", <<Plain, Plain, Plain>>)>>}
    \cup {<<Req("gpu", <<d>>)>> : d \in Devices}
    \cup {<<Req("gpu", <<Plain, d>>)>> : d \in Devices}
    \cup {<<Req("gpu", <<d, Dev(<<"d">>, <<"p", "p">>, <<"n">>, << >>)>>)>> :
             d \in Devices}
=============================================================================
