---------------------------- MODULE MCPriceCache ----------------------------
(* Instances of PriceCache for TLC: two ticks to the second, lives of less *)
(* than a second, of a second and a half, and the default.                 *)
EXTENDS PriceCache

CONSTANTS g1, g2, k1

TwoGoroutines == {g1, g2}
OneKey == {k1}
Settings == {0, 1, 3}
NegativeSetting == -1
SettingsWithNegative == Settings \cup {NegativeSetting}

=============================================================================
