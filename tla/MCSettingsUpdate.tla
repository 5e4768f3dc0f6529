-------------------------- MODULE MCSettingsUpdate --------------------------
(* Three ports and three patches: the receiver moves; both listeners move,  *)
(* one onto a port the other may have; the MCP server goes off.             *)
EXTENDS SettingsUpdate

CONSTANTS p1, p2, p3, keep

MCPorts == {p1, p2, p3}

Asks(otlp, enabled, mcpPort) == [otlp |-> otlp, enabled |-> enabled, mcpPort |-> mcpPort]

\* The first is not valid while the MCP server is on at p3.
MCPatches == {Asks(p3, keep, keep), Asks(p2, TRUE, p1), Asks(keep, FALSE, keep)}

Start(otlp, enabled, mcpPort) ==
    [revision |-> 0, otlp |-> otlp, enabled |-> enabled, mcpPort |-> mcpPort]

MCDefaults == Start(p1, TRUE, p3)

\* The MCP server is on, or off and set to a port the patches ask for.
MCFiles == {NoFile, Start(p1, FALSE, p2)}

\* A file whose revision is to be replaced, and one that becomes the defaults:
\* with the default port of the MCP server both listeners have one port.
MCOddFiles == {[Start(p1, FALSE, p2) EXCEPT !.revision = Junk],
               [Start(p3, TRUE, p2) EXCEPT !.mcpPort = Junk]}
=============================================================================
