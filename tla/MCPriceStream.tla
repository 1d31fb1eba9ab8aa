---------------------------- MODULE MCPriceStream ----------------------------
\* PriceStream with every update of a few offers.
EXTENDS PriceStream, TLC

Symmetry == Permutations(Instruments)
=============================================================================
