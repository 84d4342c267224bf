--------------------------- MODULE MCGitHubClient ---------------------------
EXTENDS GitHubClient, TLC
=============================================================================
