-------------------------- MODULE MC_ScopeDerivation --------------------------
EXTENDS ScopeDerivation

MCTraits == {{}, {"declares a test"}, {"declares a test", "offers a surface"},
             {"declares a test", "entry point"}, {"unreadable"}}

=============================================================================
