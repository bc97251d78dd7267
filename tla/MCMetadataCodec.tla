---- MODULE MCMetadataCodec ----
\* Instances of MetadataCodec: a few keys of each section.
EXTENDS MetadataCodec

FewKnown == [header |-> {"c", "n", "t"},
             caseData |-> {"nt", "gr", "tb"},
             deviceInformation |-> {"md", "bp", "ts"}]
FewPreset == [header |-> {}, caseData |-> {"nt", "gr"}, deviceInformation |-> {"md"}]
FewOwn == [header |-> {}, caseData |-> {"gr", "tb"}, deviceInformation |-> {"bp", "ts"}]

SomeWords == UNION {FewKnown[k] : k \in DOMAIN FewKnown} \cup {"x", "y", "zz"}

OddValues == {<<>>, <<"x">>, <<"x", Return, "y">>, <<"x", Return>>, <<"x", Tab, "y">>,
              <<"x", NewLine, "y">>, <<NewLine>>}
================================
