--------------------------- MODULE MCBotMessages ---------------------------
EXTENDS BotMessagesProofs, TLC

\* Handlers are interchangeable.
HandlerSymmetry == Permutations(Handlers)
=============================================================================
