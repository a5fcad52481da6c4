------------------------------ MODULE MCProcView ------------------------------
EXTENDS ProcView

\* Five processes in two orders, and what is left when some of them end.
SomeLists == {<<1, 2, 3, 4, 5>>, <<4, 1, 5, 2, 3>>, <<1, 3, 4, 5>>, <<5, 1, 3>>, <<5, 1>>}
===============================================================================
