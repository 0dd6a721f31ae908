---------------------------- MODULE MCPriceSync ----------------------------
EXTENDS PriceSync

Row(name, aliases, card) == [name |-> name, aliases |-> aliases, card |-> card]

\* "m1" is an alias at first and then a name of its own, beside one that
\* cannot be quoted.
TwoCatalogues ==
  <<{Row("m0", {"m1"}, "one")},
    {Row("m1", {}, "two"), Row("m2", {"m1"}, NoCard)}>>
=============================================================================
