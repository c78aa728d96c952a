---- MODULE MCWorktrees ----
EXTENDS Worktrees
====
