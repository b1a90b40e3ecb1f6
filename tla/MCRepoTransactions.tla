------------------------- MODULE MCRepoTransactions --------------------------
EXTENDS RepoTransactions

OneKid == {"a"}
TwoKids == {"a", "b"}
JustB == {"b"}
JustA == {"a"}
RootAndA == {Root, "a"}
RootAndKids == {Root, "a", "b"}
JustRoot == {Root}
=============================================================================
