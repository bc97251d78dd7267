---- MODULE MCCli ----
\* Instances of Cli.
EXTENDS Cli

SomeLengths == {-1, 0, 1, 3, 12, 20, 31}
====
