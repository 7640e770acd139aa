---- MODULE MCMcpServers ----
EXTENDS McpServers
=============================================================================
