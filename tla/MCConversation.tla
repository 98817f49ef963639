--------------------------- MODULE MCConversation ---------------------------
(* Instances of Conversation for TLC: one tool of each kind.                *)
EXTENDS Conversation

CONSTANTS get, write, mcp

MCTools == {get, write, mcp}

MCKind == (get :> "get") @@ (write :> "write") @@ (mcp :> "mcp")

\* A write, a GET, and two MCP calls that either the orchestrator or the model
\* asks for.
MCPlans == {<<write>>, <<get>>, <<mcp, mcp>>}

\* Only MCP tools, which the user must be asked about.
McpPlans == {<<mcp, mcp>>}
=============================================================================
