----------------------------- MODULE MCPrefetch -----------------------------
EXTENDS Prefetch

MCSetups == {[mode |-> "automatic", windows |-> {}, parts |-> 1],
             [mode |-> "disabled", windows |-> {<<0, 1>>, <<1, 2>>}, parts |-> 2]}
=============================================================================
